---------------------------- MODULE Spec2Model ----------------------------
(***************************************************************************)
(* Chat orchestration of otdfctl's llm package: the goroutine-and-channel  *)
(* ChatEngine (requestChan / responseChan / ctx / inferenceLoop) and the   *)
(* mutex-serialised SimpleChatEngine, with their callers, and the two      *)
(* document stores they retrieve from.                                     *)
(*                                                                         *)
(* Specifications                                                          *)
(*   Spec       both engine variants (chosen in Init) under arbitrary      *)
(*              Start / Stop calls of a controller and concurrent Chat     *)
(*              callers.  Stop of the ChatEngine is a sequence of steps    *)
(*              (cancel, FreeModel, close, close) that the goroutines      *)
(*              interleave with, because they never take ce.mu.            *)
(*   SpecRestart  the same with Start allowed again after Stop, buffered   *)
(*              callers only.                                              *)
(*   SpecQueue  the running ChatEngine under more Chat calls than the      *)
(*              request queue has slots (counted goroutines), with weak    *)
(*              fairness of the goroutines.                                *)
(*   SpecSession  the interactive loop of `llm chat` over either engine.   *)
(*   SpecTurn   one turn with the construction of its prompt (retrieval,   *)
(*              augmentation of the system message) from drawn inputs.     *)
(*   SpecStore  one document store, VectorStore or SimpleRAGStore, under   *)
(*              AddDocument and Search calls.                              *)
(*   SpecIndex  a store and its index file under AddDocument, SaveIndex    *)
(*              and LoadIndex, with the file removed or damaged.           *)
(*   SpecAccess goroutines calling one store at the same time.             *)
(*   SpecLive   both engines, started once and never stopped, with weak    *)
(*              fairness of the inference loop and of each caller.         *)
(*   SpecAssemble  the context assemblers on drawn results and budgets.    *)
(*   SpecRetrieve  the retrieval of a turn against a keyword store.        *)
(*   SpecIngest runs of the ingest command on one index path.              *)
(*   SpecChunk  one call of ChunkText, a step per iteration of its loop,   *)
(*              weakly fair.                                               *)
(***************************************************************************)
EXTENDS Integers, Sequences, FiniteSets, TLC

(***************************************************************************)
(* Bounds of the model.                                                    *)
(***************************************************************************)
\* concurrent Chat callers (one call each)
NumCallers == 2
\* words of a generated response, i.e. streaming pieces per turn
NumWords == 2
\* successful Start calls, i.e. inferenceLoop goroutines ever spawned
MaxStarts == 2

(***************************************************************************)
(* Program constants.                                                      *)
(***************************************************************************)
\* make(chan ChatRequest, 10)
RequestChanCap == 10
\* make(chan ChatResponse, 10)
ResponseChanCap == 10

Callers == 1..NumCallers
Loops == 1..MaxStarts

VARIABLES
    variant,             \* "full": ChatEngine, "simple": SimpleChatEngine
    running,             \* ce.running / sce.running
    model,               \* ce.model / sce.model: "nil", "loaded", "freed" (dangling)
    context,             \* ce.context / sce.context: "nil", "set"
    ctxDone,             \* ce.ctx cancelled
    requestChan,         \* buffered content of ce.requestChan
    requestChanClosed,
    responseChan,        \* buffered content of ce.responseChan
    responseChanClosed,
    loops,               \* the inferenceLoop goroutines, one per successful Start
    ctl,                 \* the thread calling Start / Stop
    chat,                \* per caller: its Chat call (goroutine, or call under sce.mu)
    received,            \* per caller: what its response channel / callback+return delivered
    mu,                  \* sce.mu: 0 free, else the caller holding it
    crashed,             \* an unrecovered panic ended the process
    overlap,             \* history: two Chat calls were in flight at once
    q,                   \* SpecQueue: the anonymous Chat goroutines, as counters
    session,             \* SpecSession: the interactive loop of the llm chat command
    turn,                \* SpecTurn: one turn's prompt construction; SpecAssemble
    store,               \* SpecStore: a VectorStore or SimpleRAGStore and its index file
    conc,                \* SpecAccess: the calls in flight on one store
    ingest               \* SpecIngest: a run of llm ingest; SpecChunk: a ChunkText call

engineVars == <<variant, running, model, context, ctxDone, requestChan,
                requestChanClosed, responseChan, responseChanClosed, loops,
                ctl, chat, received, mu, crashed, overlap>>

auxVars == <<q, session, turn, store, conc, ingest>>

vars == <<engineVars, auxVars>>

(***************************************************************************)
(* Messages.  `for` is the request a response was generated for: the Go    *)
(* ChatResponse carries no such field, it is history kept for the claims.  *)
(***************************************************************************)
Piece(c, i) == [for |-> c, kind |-> "piece", idx |-> i, note |-> ""]
Final(c, note) == [for |-> c, kind |-> "done", idx |-> 0, note |-> note]
ErrorResp(c, note) == [for |-> c, kind |-> "error", idx |-> 0, note |-> note]

NoReq == [id |-> 0, stream |-> FALSE]
IdleLoop == [pc |-> "none", req |-> NoReq, out |-> <<>>, observed |-> FALSE]
\* afterStop / wasRunning: history of the engine's state when Chat was called
IdleChat == [pc |-> "idle", stream |-> FALSE, afterStop |-> FALSE,
             wasRunning |-> FALSE, n |-> 0]

\* (mutant) the complete text is sent before the pieces
ResponseMsgsFinalFirst(req, note) ==
    IF req.stream
    THEN [i \in 1..(NumWords + 1) |->
            IF i = 1 THEN Final(req.id, note) ELSE Piece(req.id, i - 1)]
    ELSE <<Final(req.id, note)>>

\* (mutant) a streamed response without the final message marked Done
ResponseMsgsPiecesOnly(req, note) ==
    IF req.stream
    THEN [i \in 1..NumWords |-> Piece(req.id, i)]
    ELSE <<Final(req.id, note)>>

\* streamRealResponse / simulateStreamingResponse: one piece per word, then
\* the complete text marked Done; sendCompleteResponse /
\* simulateNonStreamingResponse: the complete text marked Done.
ResponseMsgs(req, note) ==
    IF req.stream
    THEN [i \in 1..(NumWords + 1) |->
            IF i <= NumWords THEN Piece(req.id, i) ELSE Final(req.id, note)]
    ELSE <<Final(req.id, note)>>

InFlight(c) == chat[c].pc \in {"send", "forward", "lock", "gen"}

InitEngine ==
    /\ variant \in {"full", "simple"}
    /\ running = FALSE
    /\ model = "nil"
    /\ context = "nil"
    /\ ctxDone = FALSE
    /\ requestChan = <<>>
    /\ requestChanClosed = FALSE
    /\ responseChan = <<>>
    /\ responseChanClosed = FALSE
    /\ loops = [l \in Loops |-> IdleLoop]
    /\ ctl = [pc |-> "idle", op |-> "none", result |-> "none", starts |-> 0]
    /\ chat = [c \in Callers |-> IdleChat]
    /\ received = [c \in Callers |-> <<>>]
    /\ mu = 0
    /\ crashed = FALSE
    /\ overlap = FALSE

NoQueue == [called |-> 0, senders |-> 0, forwarders |-> 0, delivered |-> 0,
            calledWhenFull |-> FALSE]
NoSession == [pc |-> "none"]
NoTurn == [pc |-> "none"]
NoStore == [kind |-> "none"]
NoConc == [kind |-> "none"]
NoIngest == [pc |-> "none"]

Init ==
    /\ InitEngine
    /\ q = NoQueue
    /\ session = NoSession
    /\ turn = NoTurn
    /\ store = NoStore
    /\ conc = NoConc
    /\ ingest = NoIngest

(***************************************************************************)
(* Start (both engines).  The whole body runs under the engine's mutex and *)
(* touches no channel, so it is one step.                                  *)
(***************************************************************************)
\* LoadModelFromFile / NewContextWithModel: "ok", "noctx" (context creation
\* failed), "fail" (model not loadable)
LoadOutcomes == {"ok", "noctx", "fail"}

\* (mutant) Start without the running check
StartNeverRefused == FALSE

\* if ce.running { return fmt.Errorf("chat engine is already running") }
StartRefused == running

Start ==
    /\ ~crashed
    /\ ctl.pc = "idle"
    /\ variant = "simple" => mu = 0
    /\ IF StartRefused
       THEN /\ ctl' = [ctl EXCEPT !.op = "start", !.result = "AlreadyRunning"]
            /\ UNCHANGED <<running, model, context, loops>>
       ELSE /\ ctl.starts < MaxStarts
            /\ \E o \in LoadOutcomes :
                 /\ model' = IF o = "fail" THEN "nil" ELSE "loaded"
                 /\ context' = CASE o = "ok" -> "set"
                                 [] o = "noctx" -> "nil"
                                 [] OTHER -> context
                 /\ ctl' = [ctl EXCEPT !.op = "start", !.result = "started",
                                       !.starts = @ + 1]
            /\ running' = TRUE
            \* go ce.inferenceLoop()
            /\ loops' = IF variant = "full"
                        THEN [loops EXCEPT ![ctl.starts + 1].pc = "select"]
                        ELSE loops
    /\ UNCHANGED <<variant, ctxDone, requestChan, requestChanClosed,
                   responseChan, responseChanClosed, chat, received, mu,
                   crashed, overlap>>

(***************************************************************************)
(* Stop.  ChatEngine.Stop holds ce.mu, but the goroutines read ctx, the    *)
(* channels and ce.model without it: cancel, FreeModel, close(requestChan) *)
(* and close(responseChan) are separate steps.  SimpleChatEngine.Stop runs *)
(* under sce.mu, which every Chat holds for its whole turn: one step.      *)
(***************************************************************************)
\* (mutant) Stop without the running check
StopNeverNoop == FALSE

\* if !ce.running { return }
StopIsNoop == ~running

\* if !running { return }; ce.cancel(); ce.running = false
StopBegin ==
    /\ ~crashed
    /\ variant = "full"
    /\ ctl.pc = "idle"
    /\ IF StopIsNoop
       THEN /\ ctl' = [ctl EXCEPT !.op = "stop", !.result = "noop"]
            /\ UNCHANGED <<running, ctxDone>>
       ELSE /\ ctl' = [ctl EXCEPT !.op = "stop", !.result = "stopping",
                                  !.pc = "free"]
            /\ ctxDone' = TRUE
            /\ running' = FALSE
    /\ UNCHANGED <<variant, model, context, requestChan, requestChanClosed,
                   responseChan, responseChanClosed, loops, chat, received,
                   mu, crashed, overlap>>

\* if ce.model != nil { llama.FreeModel(ce.model) }: the pointer is kept
StopFree ==
    /\ ~crashed
    /\ variant = "full"
    /\ ctl.pc = "free"
    /\ model' = IF model # "nil" THEN "freed" ELSE model
    /\ ctl' = [ctl EXCEPT !.pc = "closeReq"]
    /\ UNCHANGED <<variant, running, context, ctxDone, requestChan,
                   requestChanClosed, responseChan, responseChanClosed, loops,
                   chat, received, mu, crashed, overlap>>

\* close(ce.requestChan): closing a closed channel panics, in the caller of Stop
StopCloseRequestChan ==
    /\ ~crashed
    /\ variant = "full"
    /\ ctl.pc = "closeReq"
    /\ IF requestChanClosed
       THEN /\ crashed' = TRUE
            /\ ctl' = [ctl EXCEPT !.pc = "panic", !.result = "panic"]
            /\ UNCHANGED requestChanClosed
       ELSE /\ requestChanClosed' = TRUE
            /\ ctl' = [ctl EXCEPT !.pc = "closeResp"]
            /\ UNCHANGED crashed
    /\ UNCHANGED <<variant, running, model, context, ctxDone, requestChan,
                   responseChan, responseChanClosed, loops, chat, received,
                   mu, overlap>>

\* close(ce.responseChan); return
StopCloseResponseChan ==
    /\ ~crashed
    /\ variant = "full"
    /\ ctl.pc = "closeResp"
    /\ IF responseChanClosed
       THEN /\ crashed' = TRUE
            /\ ctl' = [ctl EXCEPT !.pc = "panic", !.result = "panic"]
            /\ UNCHANGED responseChanClosed
       ELSE /\ responseChanClosed' = TRUE
            /\ ctl' = [ctl EXCEPT !.pc = "idle", !.result = "stopped"]
            /\ UNCHANGED crashed
    /\ UNCHANGED <<variant, running, model, context, ctxDone, requestChan,
                   requestChanClosed, responseChan, loops, chat, received,
                   mu, overlap>>

\* SimpleChatEngine.Stop
SimpleStop ==
    /\ ~crashed
    /\ variant = "simple"
    /\ ctl.pc = "idle"
    /\ mu = 0
    /\ IF StopIsNoop
       THEN /\ ctl' = [ctl EXCEPT !.op = "stop", !.result = "noop"]
            /\ UNCHANGED <<running, model, context>>
       ELSE /\ ctl' = [ctl EXCEPT !.op = "stop", !.result = "stopped"]
            /\ model' = "nil"
            /\ context' = "nil"
            /\ running' = FALSE
    /\ UNCHANGED <<variant, ctxDone, requestChan, requestChanClosed,
                   responseChan, responseChanClosed, loops, chat, received,
                   mu, crashed, overlap>>

(***************************************************************************)
(* ChatEngine.inferenceLoop and what it calls.  A Go select with several   *)
(* ready cases picks any of them; a send on a closed channel is a ready    *)
(* case that panics.  The loop's deferred recover() ends the goroutine.    *)
(***************************************************************************)
\* select { case request, ok := <-ce.requestChan ...; case <-ce.ctx.Done() }
LoopSelect(l) ==
    /\ ~crashed
    /\ variant = "full"
    /\ loops[l].pc = "select"
    /\ \/ /\ requestChan # <<>>
          /\ loops' = [loops EXCEPT ![l].pc = "process",
                                    ![l].req = Head(requestChan)]
          /\ requestChan' = Tail(requestChan)
       \/ /\ requestChan = <<>>
          /\ requestChanClosed
          /\ loops' = [loops EXCEPT ![l].pc = "exit"]
          /\ UNCHANGED requestChan
       \/ /\ ctxDone
          /\ loops' = [loops EXCEPT ![l].pc = "exit", ![l].observed = TRUE]
          /\ UNCHANGED requestChan
    /\ UNCHANGED <<variant, running, model, context, ctxDone,
                   requestChanClosed, responseChan, responseChanClosed, ctl,
                   chat, received, mu, crashed, overlap>>

\* processRequest: if ce.model != nil && ce.context != nil
UsesRealInference == model # "nil" /\ context # "nil"

\* processRequest up to the dispatch: the prompt is built (buildPromptWithRAG
\* returns no error), then real inference starts or the simulation text is
\* prepared.
LoopProcess(l) ==
    /\ ~crashed
    /\ variant = "full"
    /\ loops[l].pc = "process"
    /\ IF UsesRealInference
       THEN loops' = [loops EXCEPT ![l].pc = "infer"]
       ELSE loops' = [loops EXCEPT ![l].pc = "send",
                        ![l].out = ResponseMsgs(loops[l].req, "degraded")]
    /\ UNCHANGED <<variant, running, model, context, ctxDone, requestChan,
                   requestChanClosed, responseChan, responseChanClosed, ctl,
                   chat, received, mu, crashed, overlap>>

\* performInference returns: the text, or an error (tokenization, batch,
\* decode, sampler) that becomes sendErrorResponse
LoopInfer(l) ==
    /\ ~crashed
    /\ variant = "full"
    /\ loops[l].pc = "infer"
    /\ \E ok \in BOOLEAN :
         loops' = [loops EXCEPT ![l].pc = "send",
                     ![l].out = IF ok THEN ResponseMsgs(loops[l].req, "")
                                ELSE <<ErrorResp(loops[l].req.id, "inference")>>]
    /\ UNCHANGED <<variant, running, model, context, ctxDone, requestChan,
                   requestChanClosed, responseChan, responseChanClosed, ctl,
                   chat, received, mu, crashed, overlap>>

\* on case <-ce.ctx.Done() the sender returns without the rest of the response
AfterShutdownSeen(l) == [loops[l] EXCEPT !.pc = "select", !.out = <<>>,
                                         !.observed = TRUE]

\* select { case ce.responseChan <- ChatResponse{...}: ; case <-ce.ctx.Done(): }
\* of streamRealResponse, simulateStreamingResponse, sendCompleteResponse,
\* simulateNonStreamingResponse and sendErrorResponse
LoopSend(l) ==
    /\ ~crashed
    /\ variant = "full"
    /\ loops[l].pc = "send"
    /\ \/ /\ ~responseChanClosed
          /\ Len(responseChan) < ResponseChanCap
          /\ responseChan' = Append(responseChan, Head(loops[l].out))
          /\ loops' = [loops EXCEPT ![l].out = Tail(@),
                         ![l].pc = IF Len(loops[l].out) = 1 THEN "select" ELSE "send"]
       \/ /\ responseChanClosed
          /\ loops' = [loops EXCEPT ![l].pc = "exit", ![l].out = <<>>]
          /\ UNCHANGED responseChan
       \/ /\ ctxDone
          /\ loops' = [loops EXCEPT ![l] = AfterShutdownSeen(l)]
          /\ UNCHANGED responseChan
    /\ UNCHANGED <<variant, running, model, context, ctxDone, requestChan,
                   requestChanClosed, responseChanClosed, ctl, chat, received,
                   mu, crashed, overlap>>

(***************************************************************************)
(* ChatEngine.Chat: the call itself only makes the caller's channel and    *)
(* starts the goroutine; it reads neither ce.running nor ce.mu.            *)
(***************************************************************************)
\* the engine is stopped: a Stop has returned and no Start followed it
Stopped == ctl.starts > 0 /\ ~running /\ ctl.pc = "idle"

ChatCall(c, st) ==
    /\ ~crashed
    /\ chat[c].pc = "idle"
    /\ chat' = [chat EXCEPT ![c] = [pc |-> IF variant = "full" THEN "send" ELSE "lock",
                                    stream |-> st, afterStop |-> Stopped,
                                    wasRunning |-> running, n |-> 0]]
    /\ overlap' = (overlap \/ \E d \in Callers \ {c} : InFlight(d))
    /\ UNCHANGED <<variant, running, model, context, ctxDone, requestChan,
                   requestChanClosed, responseChan, responseChanClosed, loops,
                   ctl, received, mu, crashed>>

\* the request is sent only when the queue has room: the goroutine blocks
\* on a full queue
CanEnqueue == Len(requestChan) < RequestChanCap

\* select { case ce.requestChan <- ChatRequest{...}: ; case <-ce.ctx.Done(): ... }
\* with defer close(responseChan)
ChatSend(c) ==
    /\ ~crashed
    /\ variant = "full"
    /\ chat[c].pc = "send"
    /\ \/ /\ ~requestChanClosed
          /\ CanEnqueue
          /\ requestChan' = Append(requestChan, [id |-> c, stream |-> chat[c].stream])
          /\ chat' = [chat EXCEPT ![c].pc = "forward"]
          /\ UNCHANGED <<received, crashed>>
       \/ /\ requestChanClosed
          /\ chat' = [chat EXCEPT ![c].pc = "panic"]
          /\ crashed' = TRUE
          /\ UNCHANGED <<requestChan, received>>
       \/ /\ ctxDone
          /\ received' = [received EXCEPT ![c] = Append(@, ErrorResp(c, "shutdown"))]
          /\ chat' = [chat EXCEPT ![c].pc = "done"]
          /\ UNCHANGED <<requestChan, crashed>>
    /\ UNCHANGED <<variant, running, model, context, ctxDone,
                   requestChanClosed, responseChan, responseChanClosed, loops,
                   ctl, mu, overlap>>

\* the forwarding loop: whatever is next on ce.responseChan goes to this
\* caller's channel, until a message is Done or carries an error
ChatForward(c) ==
    /\ ~crashed
    /\ variant = "full"
    /\ chat[c].pc = "forward"
    /\ \/ /\ responseChan # <<>>
          /\ received' = [received EXCEPT ![c] = Append(@, Head(responseChan))]
          /\ responseChan' = Tail(responseChan)
          /\ chat' = [chat EXCEPT ![c].pc =
                        IF Head(responseChan).kind \in {"done", "error"}
                        THEN "done" ELSE "forward"]
       \/ /\ responseChan = <<>>
          /\ responseChanClosed
          /\ chat' = [chat EXCEPT ![c].pc = "done"]
          /\ UNCHANGED <<received, responseChan>>
       \/ /\ ctxDone
          /\ received' = [received EXCEPT ![c] = Append(@, ErrorResp(c, "shutdown"))]
          /\ chat' = [chat EXCEPT ![c].pc = "done"]
          /\ UNCHANGED responseChan
    /\ UNCHANGED <<variant, running, model, context, ctxDone, requestChan,
                   requestChanClosed, responseChanClosed, loops, ctl, mu,
                   crashed, overlap>>

(***************************************************************************)
(* SimpleChatEngine.Chat / ChatStream: the whole turn runs under sce.mu.   *)
(***************************************************************************)
\* if sce.model == nil || sce.context == nil
SimpleModelMissing == model = "nil" \/ context = "nil"

\* sce.mu.Lock(); the running check; buildPromptWithRAG (returns no error);
\* the model check
SimpleChatEnter(c) ==
    /\ ~crashed
    /\ variant = "simple"
    /\ chat[c].pc = "lock"
    /\ mu = 0
    /\ IF ~running
       THEN /\ received' = [received EXCEPT ![c] = Append(@, ErrorResp(c, "NotRunning"))]
            /\ chat' = [chat EXCEPT ![c].pc = "done"]
            /\ UNCHANGED mu
       ELSE IF SimpleModelMissing
       THEN /\ received' = [received EXCEPT ![c] = Append(@, ErrorResp(c, "notLoaded"))]
            /\ chat' = [chat EXCEPT ![c].pc = "done"]
            /\ UNCHANGED mu
       ELSE /\ mu' = c
            /\ chat' = [chat EXCEPT ![c].pc = "gen"]
            /\ UNCHANGED received
    /\ UNCHANGED <<variant, running, model, context, ctxDone, requestChan,
                   requestChanClosed, responseChan, responseChanClosed, loops,
                   ctl, crashed, overlap>>

\* performSimpleInference / performStreamingInference, one step per token:
\* a failure before the first token returns an error; each token goes to the
\* callback (streaming) as it is generated; at end of generation the trimmed
\* text is returned and the deferred Unlock runs.
SimpleChatGenerate(c) ==
    /\ ~crashed
    /\ variant = "simple"
    /\ chat[c].pc = "gen"
    /\ mu = c
    /\ \/ /\ chat[c].n = 0
          /\ received' = [received EXCEPT ![c] = Append(@, ErrorResp(c, "inference"))]
          /\ chat' = [chat EXCEPT ![c].pc = "done"]
          /\ mu' = 0
       \/ /\ chat[c].n < NumWords
          /\ chat' = [chat EXCEPT ![c].n = @ + 1]
          /\ received' = IF chat[c].stream
                         THEN [received EXCEPT ![c] = Append(@, Piece(c, chat[c].n + 1))]
                         ELSE received
          /\ UNCHANGED mu
       \/ /\ received' = [received EXCEPT ![c] = Append(@, Final(c, ""))]
          /\ chat' = [chat EXCEPT ![c].pc = "done"]
          /\ mu' = 0
    /\ UNCHANGED <<variant, running, model, context, ctxDone, requestChan,
                   requestChanClosed, responseChan, responseChanClosed, loops,
                   ctl, crashed, overlap>>

StopSteps ==
    \/ StopBegin /\ UNCHANGED auxVars
    \/ StopFree /\ UNCHANGED auxVars
    \/ StopCloseRequestChan /\ UNCHANGED auxVars
    \/ StopCloseResponseChan /\ UNCHANGED auxVars
    \/ SimpleStop /\ UNCHANGED auxVars

LoopSteps ==
    \/ \E l \in Loops : LoopSelect(l) /\ UNCHANGED auxVars
    \/ \E l \in Loops : LoopProcess(l) /\ UNCHANGED auxVars
    \/ \E l \in Loops : LoopInfer(l) /\ UNCHANGED auxVars
    \/ \E l \in Loops : LoopSend(l) /\ UNCHANGED auxVars

CallerSteps ==
    \/ \E c \in Callers : ChatSend(c) /\ UNCHANGED auxVars
    \/ \E c \in Callers : ChatForward(c) /\ UNCHANGED auxVars
    \/ \E c \in Callers : SimpleChatEnter(c) /\ UNCHANGED auxVars
    \/ \E c \in Callers : SimpleChatGenerate(c) /\ UNCHANGED auxVars

EngineSteps == StopSteps \/ LoopSteps \/ CallerSteps

(***************************************************************************)
(* Spec: an engine that is started at most once (Idle -> Running ->        *)
(* Stopping -> Stopped), with buffered and streaming callers.              *)
(***************************************************************************)
Next ==
    \/ (running \/ ctl.starts = 0) /\ Start /\ UNCHANGED auxVars
    \/ \E c \in Callers, st \in BOOLEAN : ChatCall(c, st) /\ UNCHANGED auxVars
    \/ EngineSteps

Spec == Init /\ [][Next]_vars

(***************************************************************************)
(* SpecRestart: the code also lets Start run again after Stop; buffered    *)
(* (non-streaming) callers.                                                *)
(***************************************************************************)
NextRestart ==
    \/ Start /\ UNCHANGED auxVars
    \/ \E c \in Callers : ChatCall(c, FALSE) /\ UNCHANGED auxVars
    \/ EngineSteps

SpecRestart == Init /\ [][NextRestart]_vars

(***************************************************************************)
(* SpecLive: an engine that is started and never stopped, with buffered    *)
(* and streaming callers.  The consumer goroutine and each caller's        *)
(* goroutine (or call) are weakly fair: the Go scheduler runs a goroutine  *)
(* that can take a step, and every caller drains its channel.              *)
(***************************************************************************)
\* the goroutine of caller c's Chat, or its call on the SimpleChatEngine
CallerStep(c) ==
    /\ \/ ChatSend(c)
       \/ ChatForward(c)
       \/ SimpleChatEnter(c)
       \/ SimpleChatGenerate(c)
    /\ UNCHANGED auxVars

NextLive ==
    \/ ctl.starts = 0 /\ Start /\ UNCHANGED auxVars
    \/ \E c \in Callers, st \in BOOLEAN : ChatCall(c, st) /\ UNCHANGED auxVars
    \/ LoopSteps
    \/ \E c \in Callers : CallerStep(c)

SpecLive ==
    /\ Init
    /\ [][NextLive]_vars
    /\ WF_vars(LoopSteps)
    /\ \A c \in Callers : WF_vars(CallerStep(c))

(***************************************************************************)
(* SpecQueue: the bounded request queue under more Chat calls than it has  *)
(* slots.  The Chat goroutines are anonymous here: q counts those at the   *)
(* first select (senders) and those in the forwarding loop (forwarders).   *)
(* All requests are buffered (stream = false), so the consumer answers each *)
(* with exactly one message.  The consumer, Start and Stop are the actions *)
(* above, in runs where performInference returns no error and Stop is      *)
(* called once the callers have made their calls and at most one turn is   *)
(* outstanding; the goroutines a Go scheduler runs are weakly fair.        *)
(***************************************************************************)
\* Chat calls made during a run
QNumCalls == 12

InitQueue ==
    /\ InitEngine
    /\ variant = "full"
    /\ q = NoQueue
    /\ session = NoSession
    /\ turn = NoTurn
    /\ store = NoStore
    /\ conc = NoConc
    /\ ingest = NoIngest

\* Chat: make the caller's channel, start the goroutine, return
QChatCall ==
    /\ ~crashed
    /\ q.called < QNumCalls
    /\ q' = [q EXCEPT !.called = @ + 1, !.senders = @ + 1,
                      !.calledWhenFull = @ \/ ~CanEnqueue]
    /\ UNCHANGED <<engineVars, session, turn, store, conc, ingest>>

\* (mutant) a goroutine that finds the queue full gives its request up
QChatSendDropping ==
    /\ ~crashed
    /\ q.senders > 0
    /\ ~requestChanClosed
    /\ requestChan' = IF CanEnqueue THEN Append(requestChan, NoReq) ELSE requestChan
    /\ q' = [q EXCEPT !.senders = @ - 1, !.forwarders = @ + 1]
    /\ UNCHANGED <<variant, running, model, context, ctxDone,
                   requestChanClosed, responseChan, responseChanClosed, loops,
                   ctl, chat, received, mu, crashed, overlap, session, turn, store, conc, ingest>>

\* the first select of one of the goroutines (ChatSend, anonymous)
QChatSend ==
    /\ ~crashed
    /\ q.senders > 0
    /\ \/ /\ ~requestChanClosed
          /\ CanEnqueue
          /\ requestChan' = Append(requestChan, NoReq)
          /\ q' = [q EXCEPT !.senders = @ - 1, !.forwarders = @ + 1]
          /\ UNCHANGED crashed
       \/ /\ requestChanClosed
          /\ crashed' = TRUE
          /\ q' = [q EXCEPT !.senders = @ - 1]
          /\ UNCHANGED requestChan
       \/ /\ ctxDone
          /\ q' = [q EXCEPT !.senders = @ - 1]
          /\ UNCHANGED <<requestChan, crashed>>
    /\ UNCHANGED <<variant, running, model, context, ctxDone,
                   requestChanClosed, responseChan, responseChanClosed, loops,
                   ctl, chat, received, mu, overlap, session, turn, store, conc, ingest>>

\* the forwarding loop of one of the goroutines (ChatForward, anonymous):
\* every message of a buffered turn is Done or an error, so the goroutine
\* returns after forwarding one
QChatForward ==
    /\ ~crashed
    /\ q.forwarders > 0
    /\ \/ /\ responseChan # <<>>
          /\ responseChan' = Tail(responseChan)
          /\ q' = [q EXCEPT !.forwarders = @ - 1, !.delivered = @ + 1]
       \/ /\ responseChan = <<>>
          /\ responseChanClosed
          /\ q' = [q EXCEPT !.forwarders = @ - 1]
          /\ UNCHANGED responseChan
       \/ /\ ctxDone
          /\ q' = [q EXCEPT !.forwarders = @ - 1]
          /\ UNCHANGED responseChan
    /\ UNCHANGED <<variant, running, model, context, ctxDone, requestChan,
                   requestChanClosed, responseChanClosed, loops, ctl, chat,
                   received, mu, crashed, overlap, session, turn, store, conc, ingest>>

\* when the controller of these runs calls Stop
QStopAllowed == q.called = QNumCalls /\ q.senders + q.forwarders <= 1

QLoopSteps ==
    \/ \E l \in Loops : LoopSelect(l) /\ UNCHANGED auxVars
    \/ \E l \in Loops : LoopProcess(l) /\ UNCHANGED auxVars
    \/ \E l \in Loops : LoopInfer(l) /\ Head(loops'[l].out).kind = "done"
                                      /\ UNCHANGED auxVars
    \/ \E l \in Loops : LoopSend(l) /\ UNCHANGED auxVars

NextQueue ==
    \/ ctl.starts = 0 /\ Start /\ UNCHANGED auxVars
    \/ QStopAllowed /\ StopBegin /\ UNCHANGED auxVars
    \/ StopFree /\ UNCHANGED auxVars
    \/ StopCloseRequestChan /\ UNCHANGED auxVars
    \/ StopCloseResponseChan /\ UNCHANGED auxVars
    \/ QLoopSteps
    \/ QChatCall
    \/ QChatSend
    \/ QChatForward

SpecQueue ==
    /\ InitQueue
    /\ [][NextQueue]_vars
    /\ WF_vars(QLoopSteps)
    /\ WF_vars(QChatSend)
    /\ WF_vars(QChatForward)

(***************************************************************************)
(* SpecSession: the interactive loop of `llm chat` over a started engine:  *)
(* Handler.StartChat over the ChatEngine (variant "full") and              *)
(* startSimpleInteractiveChat over the SimpleChatEngine (variant "simple"). *)
(* The session is caller 1; it is the only caller and the only thread that *)
(* calls Start and Stop.                                                   *)
(***************************************************************************)
\* turns of a session
MaxTurns == 3

\* what scanner.Scan() / the trimmed line can be: end of input, "exit" or
\* "quit", "clear", "/stream", an empty line or "/help", any other text
Inputs == {"eof", "exit", "clear", "/stream", "skip", "text"}

SystemMsg == [role |-> "system", content |-> <<>>]
UserMsg == [role |-> "user", content |-> <<>>]
AssistantMsg(text) == [role |-> "assistant", content |-> text]

InitSession ==
    /\ InitEngine
    /\ q = NoQueue
    /\ turn = NoTurn
    /\ store = NoStore
    /\ conc = NoConc
    /\ ingest = NoIngest
    /\ \E st \in BOOLEAN :
         session = [pc |-> "init", stream |-> st, messages |-> <<SystemMsg>>,
                    turns |-> 0, idx |-> 0, response |-> <<>>,
                    lastTurn |-> "none", hadError |-> FALSE]

\* h.engine = NewChatEngine(modelPath); h.engine.Start(); defer h.engine.Stop()
\* simpleEngine.Start(); defer simpleEngine.Stop()
SessionStart ==
    /\ session.pc = "init"
    /\ Start
    /\ session' = [session EXCEPT !.pc = "read"]
    /\ UNCHANGED <<q, turn, store, conc, ingest>>

\* one pass of the loop up to the call of Chat / ChatStream
SessionInput(in) ==
    /\ session.pc = "read"
    /\ CASE in \in {"eof", "exit"} ->
              /\ session' = [session EXCEPT !.pc = "stopping"]
              /\ UNCHANGED engineVars
         [] in = "clear" ->
              /\ session' = [session EXCEPT !.messages = SubSeq(@, 1, 1)]
              /\ UNCHANGED engineVars
         [] in = "/stream" ->
              /\ session' = [session EXCEPT !.stream = ~@]
              /\ UNCHANGED engineVars
         [] in = "skip" ->
              /\ UNCHANGED <<session, engineVars>>
         [] OTHER ->
              /\ session.turns < MaxTurns
              /\ session' = [session EXCEPT !.pc = "turn",
                                            !.messages = Append(@, UserMsg),
                                            !.turns = @ + 1, !.idx = 0,
                                            !.response = <<>>]
              /\ ChatCall(1, session.stream)
    /\ UNCHANGED <<q, turn, store, conc, ingest>>

\* (mutant) an error turn returns from the session
PcAfterErrorReturn == "stopping"

\* the error branch of a turn: `break` out of the range loop (handler.go),
\* `continue` (startSimpleInteractiveChat); both go on with the outer loop
PcAfterError == "read"

\* if assistantResponse.Len() > 0 { messages = append(messages, assistant) }
WithAssistant(messages, text) ==
    IF text # <<>> THEN Append(messages, AssistantMsg(text)) ELSE messages

\* the text of a response message
Content(m) == IF m.kind = "piece" THEN <<m.idx>> ELSE <<"full">>

\* a new turn gets a new goroutine and channel (handler), a new call (simple)
TurnOver ==
    /\ chat' = [chat EXCEPT ![1] = IdleChat]
    /\ received' = [received EXCEPT ![1] = <<>>]
    /\ UNCHANGED <<variant, running, model, context, ctxDone, requestChan,
                   requestChanClosed, responseChan, responseChanClosed, loops,
                   ctl, mu, crashed, overlap>>

\* Handler.StartChat: for response := range responseChan { ... }
SessionReceive ==
    /\ session.pc = "turn"
    /\ variant = "full"
    /\ ~crashed
    /\ IF session.idx < Len(received[1])
       THEN LET m == received[1][session.idx + 1] IN
            CASE m.kind = "error" ->
                   /\ session' = [session EXCEPT
                                    !.pc = PcAfterError, !.lastTurn = "error",
                                    !.hadError = TRUE,
                                    !.messages = WithAssistant(@, session.response)]
                   /\ TurnOver
              [] m.kind = "piece" ->
                   /\ session' = [session EXCEPT !.idx = @ + 1,
                                                 !.response = @ \o Content(m)]
                   /\ UNCHANGED engineVars
              [] OTHER ->
                   /\ session' = [session EXCEPT
                                    !.pc = "read", !.lastTurn = "ok",
                                    !.response = @ \o Content(m),
                                    !.messages = WithAssistant(@, session.response \o Content(m))]
                   /\ TurnOver
       ELSE \* the channel is closed and drained: the range loop ends
            /\ chat[1].pc = "done"
            /\ session' = [session EXCEPT
                             !.pc = "read", !.lastTurn = "closed",
                             !.messages = WithAssistant(@, session.response)]
            /\ TurnOver
    /\ UNCHANGED <<q, turn, store, conc, ingest>>

\* startSimpleInteractiveChat: engine.ChatStream / engine.Chat has returned;
\* the callback has written the tokens to fullResponse during the call
SessionReturn ==
    /\ session.pc = "turn"
    /\ variant = "simple"
    /\ chat[1].pc = "done"
    /\ LET r == received[1]
           resp == r[Len(r)]
           tokens == [i \in 1..(Len(r) - 1) |-> r[i].idx]
           fullResponse == IF session.stream THEN tokens ELSE Content(resp)
       IN IF resp.kind = "error"
          THEN session' = [session EXCEPT !.pc = PcAfterError,
                                         !.lastTurn = "error", !.hadError = TRUE,
                                         !.response = tokens]
          ELSE session' = [session EXCEPT
                             !.pc = "read", !.lastTurn = "ok",
                             !.response = fullResponse,
                             !.messages = WithAssistant(@, fullResponse)]
    /\ TurnOver
    /\ UNCHANGED <<q, turn, store, conc, ingest>>

\* the deferred Stop runs when the loop is left
SessionDeferredStop ==
    /\ session.pc = "stopping"
    /\ \/ StopBegin /\ session' = [session EXCEPT !.pc = "close"]
       \/ SimpleStop /\ session' = [session EXCEPT !.pc = "ended"]
    /\ UNCHANGED <<q, turn, store, conc, ingest>>

\* defer handler.Close(): Handler.Close calls Stop once more
SessionClose ==
    /\ session.pc = "close"
    /\ ctl.pc = "idle"
    /\ StopBegin
    /\ session' = [session EXCEPT !.pc = "ended"]
    /\ UNCHANGED <<q, turn, store, conc, ingest>>

NextSession ==
    \/ SessionStart
    \/ \E in \in Inputs : SessionInput(in)
    \/ SessionReceive
    \/ SessionReturn
    \/ SessionDeferredStop
    \/ SessionClose
    \/ StopFree /\ UNCHANGED auxVars
    \/ StopCloseRequestChan /\ UNCHANGED auxVars
    \/ StopCloseResponseChan /\ UNCHANGED auxVars
    \/ LoopSteps
    \/ CallerSteps

SpecSession == InitSession /\ [][NextSession]_vars

(***************************************************************************)
(* SpecTurn: one turn through processRequest (ChatEngine) or Chat          *)
(* (SimpleChatEngine) with the construction of its prompt.  The inputs are *)
(* drawn in InitTurn: the messages, what EnableRAG / EnableSimpleRAG set   *)
(* before Start, the documents of the store with their score against the   *)
(* query (in hundredths) and size (in tokens), and what the embedding      *)
(* engine returns for the query.                                           *)
(***************************************************************************)
\* messages of the conversation handed to Chat
MaxMsgs == 2
\* documents in the store
MaxDocs == 2
\* vs.embeddingDim of the loaded index
StoreDim == 2

\* result.Similarity > 0.3
SimilarityThreshold == 30
\* result.Score > 0.1
ScoreThreshold == 10
\* ce.vectorStore.Search(queryEmbedding, 5), ce.simpleRAGStore.Search(query, 5)
TopK == 5
\* BuildRAGContext(query, filteredResults, 2000)
RAGTokenBudget == 2000
\* sce.simpleRAGStore.Search(userQuery, 2)
SimpleTopK == 2
\* BuildSimpleRAGContext(userQuery, results, 800)
SimpleTokenBudget == 800

Roles == {"system", "user", "assistant"}
Texts == {"", "t"}
ChatMessages == [role : Roles, content : Texts]
MessageLists == UNION {[1..n -> ChatMessages] : n \in 0..MaxMsgs}
Documents == [score : {0, 10, 50}, tokens : {100, 900, 2100}]
DocumentLists == UNION {[1..n -> Documents] : n \in 0..MaxDocs}
\* GenerateEmbedding: an error, or a vector of some dimension
Embeddings == {[err |-> TRUE, dim |-> 0]}
              \cup {[err |-> FALSE, dim |-> d] : d \in {StoreDim, StoreDim + 1}}

\* a piece of text: the words, and the documents written into it
Text(t) == [text |-> t, docs |-> <<>>, enhanced |-> FALSE]

Take(seq, k) == SubSeq(seq, 1, IF k < Len(seq) THEN k ELSE Len(seq))

\* sort.Slice by descending score: not stable, so ties come out in any order
SortedDesc(rs) ==
    LET n == Len(rs)
        perms == {f \in [1..n -> 1..n] : \A i, j \in 1..n : i # j => f[i] # f[j]}
    IN {[i \in 1..n |-> rs[f[i]]] :
          f \in {g \in perms : \A i \in 1..(n - 1) : rs[g[i]].score >= rs[g[i + 1]].score}}

\* VectorStore.Search: the outcomes for a query embedding of dimension dim
VectorStoreSearch(docs, dim, topK) ==
    IF dim # StoreDim
    THEN {[err |-> "search", results |-> <<>>]}
    ELSE {[err |-> "nil", results |-> Take(sorted, topK)] : sorted \in SortedDesc(docs)}

IsMatch(d) == d.score > 0

\* SimpleRAGStore.Search: the documents with a positive score; never an error
SimpleRAGStoreSearch(docs, topK) ==
    IF docs = <<>>
    THEN {[err |-> "nil", results |-> <<>>]}
    ELSE {[err |-> "nil", results |-> Take(sorted, topK)] :
            sorted \in SortedDesc(SelectSeq(docs, IsMatch))}

RECURSIVE WithinBudgetOvershoot(_, _, _)
\* (mutant) the budget is compared before the document is counted
WithinBudgetOvershoot(results, tokenCount, maxTokens) ==
    IF results = <<>> \/ tokenCount > maxTokens
    THEN <<>>
    ELSE <<Head(results)>>
         \o WithinBudgetOvershoot(Tail(results), tokenCount + Head(results).tokens,
                                  maxTokens)

RECURSIVE WithinBudgetSkipping(_, _, _)
\* (mutant) a document that does not fit is passed over and the loop goes on
WithinBudgetSkipping(results, tokenCount, maxTokens) ==
    IF results = <<>> THEN <<>>
    ELSE IF tokenCount + Head(results).tokens > maxTokens
         THEN WithinBudgetSkipping(Tail(results), tokenCount, maxTokens)
         ELSE <<Head(results)>>
              \o WithinBudgetSkipping(Tail(results),
                                      tokenCount + Head(results).tokens, maxTokens)

RECURSIVE WithinBudget(_, _, _)
\* the loop of BuildRAGContext / BuildSimpleRAGContext: documents are taken
\* in order until one does not fit (break)
WithinBudget(results, tokenCount, maxTokens) ==
    IF results = <<>> \/ tokenCount + Head(results).tokens > maxTokens
    THEN <<>>
    ELSE <<Head(results)>>
         \o WithinBudget(Tail(results), tokenCount + Head(results).tokens, maxTokens)

BuildRAGContext(results, maxTokens) ==
    LET used == WithinBudget(results, 0, maxTokens)
    IN [results |-> used, numDocuments |-> Len(used)]

BuildSimpleRAGContext(results, maxTokens) ==
    LET used == WithinBudget(results, 0, maxTokens)
    IN [results |-> used, numDocuments |-> Len(used)]

NoRAGContext == [results |-> <<>>, numDocuments |-> 0]

AboveSimilarityThreshold(d) == d.score > SimilarityThreshold
AboveScoreThreshold(d) == d.score > ScoreThreshold

\* a retrieval: its error and context, and as history the Search calls it
\* made and the results and budget it handed to the context assembler
Retrieval(err, ctx, searches, assembled) ==
    [err |-> err, ctx |-> ctx, searches |-> searches, assembled |-> assembled]

\* one call of a store's Search
SearchCall(kind, query, topK) == [store |-> kind, query |-> query, topK |-> topK]

\* one call of BuildRAGContext / BuildSimpleRAGContext
AssemblerCall(results, maxTokens) == [results |-> results, maxTokens |-> maxTokens]

\* ChatEngine.retrieveRAGContext: the possible (context, error) results
retrieveRAGContext(t, query) ==
    IF t.embedding.err
    THEN {Retrieval("embedding", NoRAGContext, <<>>, <<>>)}
    ELSE {LET call == SearchCall("vector", query, TopK)
              filteredResults == SelectSeq(s.results, AboveSimilarityThreshold)
          IN IF s.err # "nil"
             THEN Retrieval(s.err, NoRAGContext, <<call>>, <<>>)
             ELSE Retrieval("nil", BuildRAGContext(filteredResults, RAGTokenBudget),
                            <<call>>,
                            <<AssemblerCall(filteredResults, RAGTokenBudget)>>) :
            s \in VectorStoreSearch(t.docs, t.embedding.dim, TopK)}

\* ChatEngine.retrieveSimpleRAGContext
retrieveSimpleRAGContext(t, query) ==
    {LET call == SearchCall("keyword", query, TopK)
         filteredResults == SelectSeq(s.results, AboveScoreThreshold)
     IN IF s.err # "nil"
        THEN Retrieval(s.err, NoRAGContext, <<call>>, <<>>)
        ELSE Retrieval("nil", BuildSimpleRAGContext(filteredResults, RAGTokenBudget),
                       <<call>>, <<AssemblerCall(filteredResults, RAGTokenBudget)>>) :
       s \in SimpleRAGStoreSearch(t.docs, TopK)}

\* SimpleChatEngine.buildPromptWithRAG, its retrieval: Search, then the
\* context only if there are results
simpleRetrieve(t, query) ==
    {LET call == SearchCall("keyword", query, SimpleTopK)
     IN IF s.err # "nil" \/ s.results = <<>>
        THEN Retrieval(s.err, NoRAGContext, <<call>>, <<>>)
        ELSE Retrieval("nil", BuildSimpleRAGContext(s.results, SimpleTokenBudget),
                       <<call>>, <<AssemblerCall(s.results, SimpleTokenBudget)>>) :
       s \in SimpleRAGStoreSearch(t.docs, SimpleTopK)}

\* (mutant) the first user message taken for the query
extractUserQueryFirst(messages) ==
    LET users == {i \in 1..Len(messages) : messages[i].role = "user"}
    IN IF users = {} THEN ""
       ELSE messages[CHOOSE i \in users : \A j \in users : i <= j].content

\* extractUserQuery: the content of the last user message, "" without one
extractUserQuery(messages) ==
    LET users == {i \in 1..Len(messages) : messages[i].role = "user"}
    IN IF users = {} THEN ""
       ELSE messages[CHOOSE i \in users : \A j \in users : j <= i].content

\* the content of the last system message, "" without one
systemMessageOf(messages) ==
    LET sys == {i \in 1..Len(messages) : messages[i].role = "system"}
    IN IF sys = {} THEN ""
       ELSE messages[CHOOSE i \in sys : \A j \in sys : j <= i].content

IsConversation(m) == m.role # "system"
conversationMessages(messages) == SelectSeq(messages, IsConversation)

\* fmt.Sprintf("%s\n\n%s\n\nBased on the above documentation, ...")
Enhanced(systemMessage, ragContext) ==
    [text |-> systemMessage.text, docs |-> ragContext.results, enhanced |-> TRUE]

\* (mutant) buildPrompt leaving the assistant messages out
buildPromptUsersOnly(systemMessage, messages) ==
    LET users == SelectSeq(messages, LAMBDA m : m.role = "user")
    IN (IF systemMessage = Text("") THEN <<>>
        ELSE <<[tag |-> "system", body |-> systemMessage]>>)
       \o [i \in 1..Len(users) |-> [tag |-> "user", body |-> Text(users[i].content)]]
       \o <<[tag |-> "generate", body |-> Text("")]>>

\* buildPrompt: the system block unless the system message is empty, the
\* user and assistant messages in order, the open assistant block
buildPrompt(systemMessage, messages) ==
    (IF systemMessage = Text("") THEN <<>>
     ELSE <<[tag |-> "system", body |-> systemMessage]>>)
    \o [i \in 1..Len(messages) |->
          [tag |-> messages[i].role, body |-> Text(messages[i].content)]]
    \o <<[tag |-> "generate", body |-> Text("")]>>

\* (mutant) a failed retrieval fails the construction of the prompt
promptAfterRetrievalFatal(systemMessage, conversation, r) ==
    [prompt |-> buildPrompt(systemMessage, conversation), err |-> r.err,
     retrievalErr |-> r.err, searches |-> r.searches, assembled |-> r.assembled]

\* if err != nil { log } else if ragContext.NumDocuments > 0 { enhance };
\* return buildPrompt(systemMessage, conversationMessages), nil
promptAfterRetrieval(systemMessage, conversation, r) ==
    [prompt |-> buildPrompt(IF r.err = "nil" /\ r.ctx.numDocuments > 0
                            THEN Enhanced(systemMessage, r.ctx)
                            ELSE systemMessage,
                            conversation),
     err |-> "nil", retrievalErr |-> r.err, searches |-> r.searches,
     assembled |-> r.assembled]

NoRetrieval == Retrieval("nil", NoRAGContext, <<>>, <<>>)

\* ChatEngine.buildPromptWithRAG: the possible (prompt, error) results
buildPromptWithRAG(t, messages, userQuery) ==
    LET systemMessage == Text(systemMessageOf(messages))
        conversation == conversationMessages(messages)
    IN {promptAfterRetrieval(systemMessage, conversation, r) :
          r \in IF t.ragEnabled /\ userQuery # ""
                THEN retrieveRAGContext(t, userQuery)
                ELSE IF t.simpleRAGEnabled /\ userQuery # ""
                THEN retrieveSimpleRAGContext(t, userQuery)
                ELSE {NoRetrieval}}

\* SimpleChatEngine.buildPromptWithRAG
simpleBuildPromptWithRAG(t, messages, userQuery) ==
    LET systemMessage == Text(systemMessageOf(messages))
        conversation == conversationMessages(messages)
    IN {promptAfterRetrieval(systemMessage, conversation, r) :
          r \in IF t.simpleRAGEnabled /\ userQuery # ""
                THEN simpleRetrieve(t, userQuery)
                ELSE {NoRetrieval}}

InitTurn ==
    /\ InitEngine
    /\ q = NoQueue
    /\ session = NoSession
    /\ store = NoStore
    /\ conc = NoConc
    /\ ingest = NoIngest
    /\ \E ms \in MessageLists, ds \in DocumentLists, e \in Embeddings,
          rag, simpleRAG \in BOOLEAN :
         \* the SimpleChatEngine has no embedding retrieval
         /\ variant = "simple" => (~rag /\ e.dim = StoreDim)
         /\ turn = [pc |-> "input", messages |-> ms, ragEnabled |-> rag,
                    simpleRAGEnabled |-> simpleRAG, embedding |-> e, docs |-> ds,
                    prompt |-> <<>>, err |-> "nil", retrievalErr |-> "nil",
                    searches |-> <<>>, assembled |-> <<>>, dispatched |-> FALSE]

TurnStart ==
    /\ turn.pc = "input"
    /\ Start
    /\ turn' = [turn EXCEPT !.pc = "started"]
    /\ UNCHANGED <<q, session, store, conc, ingest>>

TurnCall ==
    /\ turn.pc = "started"
    /\ ChatCall(1, FALSE)
    /\ turn' = [turn EXCEPT !.pc = "called"]
    /\ UNCHANGED <<q, session, store, conc, ingest>>

\* processRequest: extractUserQuery, buildPromptWithRAG, its error check, and
\* the dispatch (LoopProcess)
TurnProcess(l) ==
    /\ turn.pc = "called"
    /\ variant = "full"
    /\ loops[l].pc = "process"
    /\ \E b \in buildPromptWithRAG(turn, turn.messages, extractUserQuery(turn.messages)) :
         /\ turn' = [turn EXCEPT !.pc = "built", !.prompt = b.prompt, !.err = b.err,
                                 !.retrievalErr = b.retrievalErr,
                                 !.searches = b.searches, !.assembled = b.assembled,
                                 !.dispatched = (b.err = "nil")]
         /\ IF b.err # "nil"
            THEN \* ce.sendErrorResponse("failed to build prompt")
                 /\ ~crashed
                 /\ loops' = [loops EXCEPT ![l].pc = "send",
                                ![l].out = <<ErrorResp(loops[l].req.id, "prompt")>>]
                 /\ UNCHANGED <<variant, running, model, context, ctxDone,
                                requestChan, requestChanClosed, responseChan,
                                responseChanClosed, ctl, chat, received, mu,
                                crashed, overlap>>
            ELSE LoopProcess(l)
    /\ UNCHANGED <<q, session, store, conc, ingest>>

\* SimpleChatEngine.Chat: the running check, extractUserQuery,
\* buildPromptWithRAG and its error check, the model check (SimpleChatEnter)
TurnSimple ==
    /\ turn.pc = "called"
    /\ variant = "simple"
    /\ chat[1].pc = "lock"
    /\ mu = 0
    /\ \E b \in simpleBuildPromptWithRAG(turn, turn.messages,
                                        extractUserQuery(turn.messages)) :
         /\ turn' = IF running
                    THEN [turn EXCEPT !.pc = "built", !.prompt = b.prompt,
                                      !.err = b.err, !.retrievalErr = b.retrievalErr,
                                      !.searches = b.searches,
                                      !.assembled = b.assembled,
                                      !.dispatched = (b.err = "nil" /\ ~SimpleModelMissing)]
                    ELSE [turn EXCEPT !.pc = "built"]
         /\ IF running /\ b.err # "nil"
            THEN /\ ~crashed
                 /\ received' = [received EXCEPT ![1] = Append(@, ErrorResp(1, "prompt"))]
                 /\ chat' = [chat EXCEPT ![1].pc = "done"]
                 /\ UNCHANGED <<variant, running, model, context, ctxDone,
                                requestChan, requestChanClosed, responseChan,
                                responseChanClosed, loops, ctl, mu, crashed, overlap>>
            ELSE SimpleChatEnter(1)
    /\ UNCHANGED <<q, session, store, conc, ingest>>

NextTurn ==
    \/ TurnStart
    \/ TurnCall
    \/ \E l \in Loops : TurnProcess(l)
    \/ TurnSimple
    \/ \E l \in Loops : LoopSelect(l) /\ UNCHANGED auxVars
    \/ \E l \in Loops : LoopInfer(l) /\ UNCHANGED auxVars
    \/ \E l \in Loops : LoopSend(l) /\ UNCHANGED auxVars
    \/ ChatSend(1) /\ UNCHANGED auxVars
    \/ ChatForward(1) /\ UNCHANGED auxVars
    \/ SimpleChatGenerate(1) /\ UNCHANGED auxVars

SpecTurn == InitTurn /\ [][NextTurn]_vars

(***************************************************************************)
(* SpecAssemble: BuildRAGContext and BuildSimpleRAGContext on drawn search *)
(* results, each with the length of its content in characters, and a drawn *)
(* token budget.                                                           *)
(***************************************************************************)
\* results handed to the assembler
MaxResults == 3

ContentLengths == {0, 3, 4, 4000, 6001}
TokenBudgets == {0, 1, 1500, 2000}
BudgetedResults == [chars : ContentLengths, score : {50}]
ResultLists == UNION {[1..n -> BudgetedResults] : n \in 0..MaxResults}

\* docTokens := len(result.Document.Content) / 4
docTokens(result) == result.chars \div 4

\* the results with their estimated token count
Estimated(results) ==
    [i \in 1..Len(results) |->
       [chars |-> results[i].chars, score |-> results[i].score,
        tokens |-> docTokens(results[i])]]

InitAssemble ==
    /\ InitEngine
    /\ q = NoQueue /\ session = NoSession /\ store = NoStore /\ conc = NoConc
    /\ ingest = NoIngest
    /\ \E rs \in ResultLists, b \in TokenBudgets, simple \in BOOLEAN :
         turn = [pc |-> "assemble", simple |-> simple, results |-> rs,
                 maxTokens |-> b, context |-> NoRAGContext]

\* BuildRAGContext(query, results, maxTokens) /
\* BuildSimpleRAGContext(query, results, maxTokens)
Assemble ==
    /\ turn.pc = "assemble"
    /\ turn' = [turn EXCEPT
                  !.pc = "assembled",
                  !.context = IF turn.simple
                              THEN BuildSimpleRAGContext(Estimated(turn.results),
                                                         turn.maxTokens)
                              ELSE BuildRAGContext(Estimated(turn.results),
                                                   turn.maxTokens)]
    /\ UNCHANGED <<engineVars, q, session, store, conc, ingest>>

NextAssemble == Assemble

SpecAssemble == InitAssemble /\ [][NextAssemble]_vars

(***************************************************************************)
(* SpecStore: one document store under add and search calls made one after *)
(* the other: the VectorStore (kind "vector") or the SimpleRAGStore (kind  *)
(* "keyword").  A document of the VectorStore carries the length of its    *)
(* embedding (dim) and, since the vectors themselves are the model's, the  *)
(* cosine of its embedding with the query's (score, in hundredths).        *)
(***************************************************************************)
\* documents a store holds
MaxStoreDocs == 2
\* embedding lengths: none, EmbedDim, EmbedDim + 1
EmbedDim == 2

Dims == {0, EmbedDim, EmbedDim + 1}
TopKs == 0..MaxStoreDocs
\* a word that is not valid UTF-8
InvalidUTF8 == "\\xff"

VectorDocs == [dim : Dims, score : {-50, 0, 50}, content : {<<"tdf">>}]

NoFile == [state |-> "missing", documents |-> <<>>, embeddingDim |-> 0]
\* history: the documents and dimension in memory at the last SaveIndex that
\* wrote the file, while the file is as that call left it
NoSaved == [valid |-> FALSE, documents |-> <<>>, embeddingDim |-> 0]
NoCall == [op |-> "none", err |-> "nil", dim |-> 0, topK |-> 0, query |-> <<>>,
           results |-> <<>>]

\* NewVectorStore(indexPath) / NewSimpleRAGStore(indexPath)
NewStore(kind) == [kind |-> kind, documents |-> <<>>, embeddingDim |-> 0,
                   file |-> NoFile, saved |-> NoSaved, last |-> NoCall]

\* (mutant) the dimension check of AddDocument left out
AddRefusedNever(vs, doc) == FALSE

\* AddDocument: the first embedding fixes the dimension, so the check
\* if len(doc.Embedding) != vs.embeddingDim && vs.embeddingDim > 0
\* reads the dimension after that assignment
AddRefused(vs, doc) ==
    LET embeddingDim == IF vs.embeddingDim = 0 /\ doc.dim > 0
                        THEN doc.dim ELSE vs.embeddingDim
    IN doc.dim # embeddingDim /\ embeddingDim > 0

\* VectorStore.AddDocument
VectorAdd(doc) ==
    /\ store.kind = "vector"
    /\ IF AddRefused(store, doc)
       THEN store' = [store EXCEPT
                        !.last = [NoCall EXCEPT !.op = "add", !.err = "DimensionMismatch",
                                                !.dim = doc.dim]]
       ELSE /\ Len(store.documents) < MaxStoreDocs
            /\ store' = [store EXCEPT
                           !.documents = Append(@, doc),
                           !.embeddingDim = IF @ = 0 /\ doc.dim > 0 THEN doc.dim ELSE @,
                           !.last = [NoCall EXCEPT !.op = "add", !.dim = doc.dim]]
    /\ UNCHANGED <<engineVars, q, session, turn, conc>>

\* cosineSimilarity: 0 when the lengths differ, else the cosine
cosineSimilarity(queryDim, doc) == IF doc.dim # queryDim THEN 0 ELSE doc.score

\* the SimilarityResult / SearchResult of the document at index pos
Scored(pos, similarity) == [pos |-> pos, score |-> similarity]

\* (mutant) Search without the dimension check
SearchRefusedNever(vs, queryDim) == FALSE

\* if len(queryEmbedding) != vs.embeddingDim
SearchRefused(vs, queryDim) == queryDim # vs.embeddingDim

\* (mutant) the results are cut before they are sorted
SearchResultsCutFirst(vs, queryDim, topK) ==
    UNION {SortedDesc(Take(rs, topK)) :
             rs \in {[i \in 1..Len(vs.documents) |->
                        Scored(i, cosineSimilarity(queryDim, vs.documents[i]))]}}

\* VectorStore.Search past the check: every document scored, sort.Slice by
\* descending similarity, the first topK kept
SearchResults(vs, queryDim, topK) ==
    LET results == [i \in 1..Len(vs.documents) |->
                      Scored(i, cosineSimilarity(queryDim, vs.documents[i]))]
    IN {Take(sorted, topK) : sorted \in SortedDesc(results)}

\* VectorStore.Search
VectorSearch(queryDim, topK) ==
    /\ store.kind = "vector"
    /\ IF SearchRefused(store, queryDim)
       THEN store' = [store EXCEPT
                        !.last = [NoCall EXCEPT !.op = "search", !.err = "DimensionMismatch",
                                                !.dim = queryDim, !.topK = topK]]
       ELSE \E rs \in SearchResults(store, queryDim, topK) :
              store' = [store EXCEPT
                          !.last = [NoCall EXCEPT !.op = "search", !.dim = queryDim,
                                                  !.topK = topK, !.results = rs]]
    /\ UNCHANGED <<engineVars, q, session, turn, conc>>

\* The SimpleRAGStore.  A text is the sequence of its words (the fields
\* strings.FieldsFunc cuts it into), joined by single spaces.
Words == {"tdf", "tdfs", "TDFS", "the", "ab"}
MaxQueryWords == 2
MaxContentWords == 2

RECURSIVE SeqsUpTo(_, _)
SeqsUpTo(S, n) ==
    IF n = 0 THEN {<<>>}
    ELSE LET shorter == SeqsUpTo(S, n - 1)
         IN shorter \cup {Append(t, w) : t \in shorter, w \in S}

Queries == SeqsUpTo({"tdf", "the", "ab"}, MaxQueryWords)
KeywordDocs == [title : {<<>>, <<"TDFS">>},
                content : SeqsUpTo({"tdf", "ab"}, MaxContentWords) \ {<<>>}]

\* strings.ToLower
ToLower(text) == [i \in 1..Len(text) |-> IF text[i] = "TDFS" THEN "tdfs" ELSE text[i]]

\* len(word)
WordLen(w) == CASE w = "ab" -> 2
                [] w \in {"tdfs", "TDFS"} -> 4
                [] OTHER -> 3

\* the stop words of extractKeywords among Words
stopWords == {"the"}

\* (mutant) extractKeywords keeping stop words and short words
extractKeywordsAll(text) == ToLower(text)

\* extractKeywords: lower-cased words longer than 2 that are not stop words
extractKeywords(text) ==
    LET keep(w) == WordLen(w) > 2 /\ w \notin stopWords
    IN SelectSeq(ToLower(text), keep)

\* strings.Contains on two lower-case words
WordContains(w, part) == w = part \/ (w = "tdfs" /\ part = "tdf")

\* strings.Contains(text, strings.Join(phrase, " ")) for a phrase of one or
\* more words: no word of Words ends with another one, so a phrase of several
\* words matches where its words but the last are words of the text and the last
\* one starts a word of the text
TextContains(text, phrase) ==
    LET k == Len(phrase)
    IN \E i \in 1..(Len(text) - k + 1) :
         /\ \A j \in 1..(k - 1) : text[i + j - 1] = phrase[j]
         /\ WordContains(text[i + k - 1], phrase[k])

Count(w, text) == Cardinality({i \in 1..Len(text) : text[i] = w})

RECURSIVE SumOver(_, _, _, _)
\* the sum of wordScore over the query words found in the document
SumOver(ws, queryWords, docWords, title) ==
    IF ws = {} THEN 0
    ELSE LET w == CHOOSE x \in ws : TRUE
             wordScore == Count(w, queryWords)
                            * (IF Count(w, docWords) > 1 THEN 3 ELSE 2)
                            * (IF \E i \in 1..Len(title) : WordContains(title[i], w)
                               THEN 2 ELSE 1)
         IN (IF Count(w, docWords) > 0 THEN wordScore ELSE 0)
              + SumOver(ws \ {w}, queryWords, docWords, title)

\* calculateScore, in units of 1 / (2 * len(queryWords)): a word's share
\* qCount / len(queryWords), times 1.5 when the document has it more than
\* once, times 2 when the title contains it, and 1 more for the whole phrase
calculateScore(queryWords, doc) ==
    IF Len(queryWords) = 0 THEN 0
    ELSE LET docText == ToLower(doc.title \o doc.content)
             docWords == extractKeywords(docText)
             words == {queryWords[i] : i \in 1..Len(queryWords)}
         IN SumOver(words, queryWords, docWords, ToLower(doc.title))
              + (IF TextContains(docText, queryWords) THEN 2 * Len(queryWords) ELSE 0)

\* SimpleRAGStore.AddDocument
KeywordAdd(doc) ==
    /\ store.kind = "keyword"
    /\ Len(store.documents) < MaxStoreDocs
    /\ store' = [store EXCEPT !.documents = Append(@, doc),
                              !.last = [NoCall EXCEPT !.op = "add"]]
    /\ UNCHANGED <<engineVars, q, session, turn, conc>>

\* SimpleRAGStore.Search past the empty store: the documents of positive
\* score, sort.Slice by descending score, the first topK kept
KeywordResults(s, query, topK) ==
    LET queryWords == extractKeywords(ToLower(query))
        scored == [i \in 1..Len(s.documents) |->
                     Scored(i, calculateScore(queryWords, s.documents[i]))]
        positive(r) == r.score > 0
    IN {Take(sorted, topK) : sorted \in SortedDesc(SelectSeq(scored, positive))}

\* SimpleRAGStore.Search
KeywordSearch(query, topK) ==
    /\ store.kind = "keyword"
    /\ \E rs \in (IF Len(store.documents) = 0 THEN {<<>>}
                  ELSE KeywordResults(store, query, topK)) :
         store' = [store EXCEPT
                     !.last = [NoCall EXCEPT !.op = "search", !.query = query,
                                             !.topK = topK, !.results = rs]]
    /\ UNCHANGED <<engineVars, q, session, turn, conc>>

InitStore ==
    /\ InitEngine
    /\ q = NoQueue /\ session = NoSession /\ turn = NoTurn /\ conc = NoConc
    /\ ingest = NoIngest
    /\ store \in {NewStore("vector"), NewStore("keyword")}

NextStore ==
    \/ \E doc \in VectorDocs : VectorAdd(doc) /\ UNCHANGED ingest
    \/ \E queryDim \in Dims, topK \in TopKs :
         VectorSearch(queryDim, topK) /\ UNCHANGED ingest
    \/ \E doc \in KeywordDocs : KeywordAdd(doc) /\ UNCHANGED ingest
    \/ \E query \in Queries, topK \in TopKs :
         KeywordSearch(query, topK) /\ UNCHANGED ingest

SpecStore == InitStore /\ [][NextStore]_vars

(***************************************************************************)
(* SpecRetrieve: the retrieval of one turn against a keyword store, as     *)
(* SimpleChatEngine.buildPromptWithRAG and ChatEngine.                     *)
(* retrieveSimpleRAGContext do it: Search, the score threshold of the full *)
(* engine, BuildSimpleRAGContext.                                          *)
(***************************************************************************)
RECURSIVE ContentChars(_)
\* len(doc.Content) of words joined by single spaces
ContentChars(content) ==
    IF content = <<>> THEN 0
    ELSE WordLen(Head(content))
           + (IF Len(content) > 1 THEN 1 + ContentChars(Tail(content)) ELSE 0)

\* the search results with the token estimate len(Content) / 4 of each
WithTokens(s, rs) ==
    [i \in 1..Len(rs) |->
       [pos |-> rs[i].pos, score |-> rs[i].score,
        tokens |-> ContentChars(s.documents[rs[i].pos].content) \div 4]]

\* if result.Score > 0.1, the score in units of 1 / (2 * len(queryWords))
AboveKeywordThreshold(query, r) ==
    r.score * 100 > ScoreThreshold * 2 * Len(extractKeywords(ToLower(query)))

\* the documents Search returns for the turn
TurnSearch(s, query, topK) ==
    IF Len(s.documents) = 0 THEN {<<>>} ELSE KeywordResults(s, query, topK)

\* SimpleChatEngine.buildPromptWithRAG: the documents put into the prompt
SimpleEngineRetrieve(query) ==
    /\ store.kind = "keyword"
    /\ \E rs \in (IF query = <<>> THEN {<<>>}
                  ELSE TurnSearch(store, query, SimpleTopK)) :
         LET ragContext == IF Len(rs) > 0
                           THEN BuildSimpleRAGContext(WithTokens(store, rs),
                                                      SimpleTokenBudget)
                           ELSE NoRAGContext
         IN store' = [store EXCEPT
                        !.last = [NoCall EXCEPT !.op = "context", !.query = query,
                                                !.topK = SimpleTopK,
                                                !.results = ragContext.results]]
    /\ UNCHANGED <<engineVars, q, session, turn, conc>>

\* ChatEngine.retrieveSimpleRAGContext
ChatEngineRetrieve(query) ==
    /\ store.kind = "keyword"
    /\ \E rs \in TurnSearch(store, query, TopK) :
         LET above(r) == AboveKeywordThreshold(query, r)
             ragContext == BuildSimpleRAGContext(
                             WithTokens(store, SelectSeq(rs, above)), RAGTokenBudget)
         IN store' = [store EXCEPT
                        !.last = [NoCall EXCEPT !.op = "context", !.query = query,
                                                !.topK = TopK,
                                                !.results = ragContext.results]]
    /\ UNCHANGED <<engineVars, q, session, turn, conc>>

InitRetrieve ==
    /\ InitEngine
    /\ q = NoQueue /\ session = NoSession /\ turn = NoTurn /\ conc = NoConc
    /\ ingest = NoIngest
    /\ store = NewStore("keyword")

NextRetrieve ==
    \/ \E doc \in KeywordDocs : KeywordAdd(doc) /\ UNCHANGED ingest
    \/ \E query \in Queries : SimpleEngineRetrieve(query) /\ UNCHANGED ingest
    \/ \E query \in Queries : ChatEngineRetrieve(query) /\ UNCHANGED ingest

SpecRetrieve == InitRetrieve /\ [][NextRetrieve]_vars

(***************************************************************************)
(* SpecIndex: one store and its index file under AddDocument, SaveIndex,   *)
(* LoadIndex, a new store opened on the same path, and the file removed or *)
(* damaged from outside.                                                   *)
(***************************************************************************)
\* the Unicode replacement character json.Marshal writes for invalid bytes
ReplacementChar == "\\ufffd"

IndexVectorDocs == [dim : Dims, score : {0}, content : {<<"tdf">>, <<InvalidUTF8>>}]
IndexKeywordDocs == [title : {<<>>}, content : {<<"tdf">>, <<InvalidUTF8>>}]

\* a string through json.Marshal and json.Unmarshal: invalid UTF-8 is
\* coerced to the replacement character when it is written
jsonString(text) ==
    [i \in 1..Len(text) |-> IF text[i] = InvalidUTF8 THEN ReplacementChar ELSE text[i]]

\* a document through json.MarshalIndent and json.Unmarshal
jsonDocument(doc) ==
    IF "title" \in DOMAIN doc
    THEN [doc EXCEPT !.title = jsonString(@), !.content = jsonString(@)]
    ELSE [doc EXCEPT !.content = jsonString(@)]

\* the index file os.WriteFile leaves for the store
IndexFile(vs) ==
    [state |-> "index",
     documents |-> [i \in 1..Len(vs.documents) |-> jsonDocument(vs.documents[i])],
     embeddingDim |-> vs.embeddingDim]

\* SaveIndex: MarshalIndent, MkdirAll, WriteFile; a failed WriteFile has
\* truncated the file or left it alone
SaveIndex(outcome) ==
    /\ store.kind \in {"vector", "keyword"}
    /\ \/ /\ outcome = "nil"
          /\ store' = [store EXCEPT
                         !.file = IndexFile(store),
                         !.saved = [valid |-> TRUE, documents |-> store.documents,
                                    embeddingDim |-> store.embeddingDim],
                         !.last = [NoCall EXCEPT !.op = "save"]]
       \/ /\ outcome = "mkdir"
          /\ store' = [store EXCEPT !.last = [NoCall EXCEPT !.op = "save", !.err = "mkdir"]]
       \/ /\ outcome = "write"
          /\ \E truncated \in BOOLEAN :
               store' = [store EXCEPT
                           !.file = IF truncated THEN [NoFile EXCEPT !.state = "garbage"]
                                    ELSE @,
                           !.saved = IF truncated THEN NoSaved ELSE @,
                           !.last = [NoCall EXCEPT !.op = "save", !.err = "write"]]
    /\ UNCHANGED <<engineVars, q, session, turn, conc>>

\* (mutant) LoadIndex decoding straight into the store
afterUnmarshalErrorCleared(vs) == [vs EXCEPT !.documents = <<>>, !.embeddingDim = 0]

\* LoadIndex decodes into the local indexData: an error leaves the store alone
afterUnmarshalError(vs) == vs

\* LoadIndex on a path without file: return nil
afterNotExist(vs) == vs

\* LoadIndex
LoadIndex ==
    /\ store.kind \in {"vector", "keyword"}
    /\ store' =
         CASE store.file.state = "missing" ->
                [afterNotExist(store) EXCEPT !.last = [NoCall EXCEPT !.op = "load"]]
           [] store.file.state = "unreadable" ->
                [store EXCEPT !.last = [NoCall EXCEPT !.op = "load", !.err = "read"]]
           [] store.file.state = "garbage" ->
                [afterUnmarshalError(store) EXCEPT
                   !.last = [NoCall EXCEPT !.op = "load", !.err = "unmarshal"]]
           [] OTHER ->
                [store EXCEPT !.documents = store.file.documents,
                              !.embeddingDim = store.file.embeddingDim,
                              !.last = [NoCall EXCEPT !.op = "load"]]
    /\ UNCHANGED <<engineVars, q, session, turn, conc>>

\* a new process: NewVectorStore / NewSimpleRAGStore on the same indexPath
Reopen ==
    /\ store.kind \in {"vector", "keyword"}
    /\ store.last.op # "new"
    /\ store' = [NewStore(store.kind) EXCEPT !.file = store.file, !.saved = store.saved,
                                             !.last = [NoCall EXCEPT !.op = "new"]]
    /\ UNCHANGED <<engineVars, q, session, turn, conc>>

\* the environment: the file removed, made unreadable or overwritten
FileChange(state) ==
    /\ store.kind \in {"vector", "keyword"}
    /\ store.file.state # "missing"
    /\ store.file.state # state
    /\ store' = [store EXCEPT !.file = [NoFile EXCEPT !.state = state],
                              !.saved = NoSaved,
                              !.last = [NoCall EXCEPT !.op = "env"]]
    /\ UNCHANGED <<engineVars, q, session, turn, conc>>

InitIndex == InitStore

NextIndex ==
    \/ \E doc \in IndexVectorDocs : VectorAdd(doc) /\ UNCHANGED ingest
    \/ \E doc \in IndexKeywordDocs : KeywordAdd(doc) /\ UNCHANGED ingest
    \/ \E outcome \in {"nil", "mkdir", "write"} : SaveIndex(outcome) /\ UNCHANGED ingest
    \/ LoadIndex /\ UNCHANGED ingest
    \/ Reopen /\ UNCHANGED ingest
    \/ \E state \in {"missing", "unreadable", "garbage"} :
         FileChange(state) /\ UNCHANGED ingest

SpecIndex == InitIndex /\ [][NextIndex]_vars

(***************************************************************************)
(* SpecIngest: runs of the ingest command on one index path.  A run loads  *)
(* the embedding model, opens the vector store and loads the index, embeds *)
(* and adds the chunks, saves the index and reports.                       *)
(***************************************************************************)
\* runs of the command
MaxRuns == 2

\* the embedding lengths of the embedding models
ModelDims == {EmbedDim, EmbedDim + 1}

\* the run before the first one
NoPrev == [source |-> 0, dim |-> 0, result |-> "none"]

\* source is the number of chunks the sources yield, chunks those still to
\* come; history: skipped counts the "failed to add document chunk"
\* warnings, embeddings the embeddings generated, processed is
\* totalProcessed, result what the command reported, prev the run before
NewRun(run, dim, prev) ==
    [pc |-> "load", run |-> run, dim |-> dim, source |-> 0, chunks |-> 0,
     skipped |-> 0, embeddings |-> 0, processed |-> 0, result |-> "none",
     prev |-> prev]

\* chunkDoc: the ID is derived from the file's path and the chunk's index,
\* the embedding from the chunk's text and the model
ChunkDoc(k, dim) == [id |-> k, dim |-> dim, score |-> 50, content |-> <<"tdf">>]

Exited(result) == [ingest EXCEPT !.pc = "exited", !.result = result]

\* llmIngestCmd up to NewVectorStore(indexPath)
IngestCommand(dim, modelLoaded) ==
    /\ ingest.pc \in {"none", "exited"}
    /\ store.kind = "vector"
    /\ LET run == IF ingest.pc = "none" THEN 1 ELSE ingest.run + 1
           prev == IF ingest.pc = "none" THEN NoPrev
                   ELSE [source |-> ingest.source, dim |-> ingest.dim,
                         result |-> ingest.result]
       IN /\ run <= MaxRuns
          /\ IF modelLoaded
             THEN /\ ingest' = NewRun(run, dim, prev)
                  /\ store' = [NewStore("vector") EXCEPT
                                 !.file = store.file, !.saved = store.saved,
                                 !.last = [NoCall EXCEPT !.op = "new"]]
             ELSE /\ ingest' = [NewRun(run, dim, prev) EXCEPT !.pc = "exited",
                                                              !.result = "error"]
                  /\ UNCHANGED store
    /\ UNCHANGED <<engineVars, q, session, turn, conc>>

\* vectorStore.LoadIndex() and the chunks the sources will yield
IngestLoad ==
    /\ ingest.pc = "load"
    /\ LoadIndex
    /\ IF store'.last.err = "nil"
       THEN \E n \in 0..(MaxStoreDocs - Len(store'.documents)) :
              ingest' = [ingest EXCEPT !.pc = "ingest", !.source = n, !.chunks = n]
       ELSE ingest' = Exited("error")

\* one chunk of IngestFromGitHub / IngestFromLocalDirectory
IngestChunk(embedded) ==
    /\ ingest.pc = "ingest"
    /\ ingest.chunks > 0
    /\ IF embedded
       THEN /\ VectorAdd(ChunkDoc(ingest.source - ingest.chunks + 1, ingest.dim))
            /\ ingest' = IF store'.last.err = "nil"
                         THEN [ingest EXCEPT !.chunks = @ - 1, !.embeddings = @ + 1,
                                             !.processed = @ + 1]
                         ELSE [ingest EXCEPT !.chunks = @ - 1, !.embeddings = @ + 1,
                                             !.skipped = @ + 1]
       ELSE /\ ingest' = [ingest EXCEPT !.chunks = @ - 1]
            /\ UNCHANGED <<engineVars, q, session, turn, conc, store>>

\* the return of IngestFromGitHub / IngestFromLocalDirectory: nil after the
\* last chunk, an error when the cache directory or the walk fails
IngestReturn(err) ==
    /\ ingest.pc = "ingest"
    /\ IF err
       THEN ingest' = Exited("error")
       ELSE /\ ingest.chunks = 0
            /\ ingest' = [ingest EXCEPT !.pc = "save"]
    /\ UNCHANGED <<engineVars, q, session, turn, conc, store>>

\* vectorStore.SaveIndex() and the report
IngestSave(outcome) ==
    /\ ingest.pc = "save"
    /\ SaveIndex(outcome)
    /\ ingest' = Exited(IF store'.last.err = "nil" THEN "success" ELSE "error")

InitIngest ==
    /\ InitEngine
    /\ q = NoQueue /\ session = NoSession /\ turn = NoTurn /\ conc = NoConc
    /\ ingest = NoIngest
    /\ store = NewStore("vector")

NextIngest ==
    \/ \E dim \in ModelDims, modelLoaded \in BOOLEAN : IngestCommand(dim, modelLoaded)
    \/ IngestLoad
    \/ \E embedded \in BOOLEAN : IngestChunk(embedded)
    \/ \E err \in BOOLEAN : IngestReturn(err)
    \/ \E outcome \in {"nil", "mkdir", "write"} : IngestSave(outcome)

SpecIngest == InitIngest /\ [][NextIngest]_vars

(***************************************************************************)
(* SpecChunk: one call of ChunkText on a drawn text, chunkSize and         *)
(* overlap, one step per iteration of its loop.  A word of the text is its *)
(* position; a chunk is the words after position from up to position to.   *)
(***************************************************************************)
\* words of the text
MaxTextWords == 4
\* largest chunkSize and overlap
MaxChunkSize == 3
\* chunks recorded; a loop that goes on appends beyond it unrecorded
MaxChunks == MaxTextWords + 1

ChunkSizes == (0 - 1)..MaxChunkSize

\* return []string{text}: the text as it is
WholeText(n) == [from |-> 0, to |-> n, joined |-> FALSE]

\* strings.Join(words[start:end], " ")
JoinedWords(start, end) == [from |-> start, to |-> end, joined |-> TRUE]

\* (mutant) the next chunk starting where the last one ended
NextStartNoOverlap(start, chunkSize, chunkOverlap) == start + chunkSize

\* start += chunkSize - chunkOverlap
NextStart(start, chunkSize, chunkOverlap) == start + chunkSize - chunkOverlap

InitChunk ==
    /\ InitEngine
    /\ q = NoQueue /\ session = NoSession /\ turn = NoTurn /\ store = NoStore
    /\ conc = NoConc
    /\ \E n \in 0..MaxTextWords, chunkSize \in ChunkSizes, chunkOverlap \in ChunkSizes :
         ingest = [pc |-> "called", words |-> n, chunkSize |-> chunkSize,
                   overlap |-> chunkOverlap, start |-> 0, chunks |-> <<>>]

\* ChunkText up to the loop
ChunkTextEnter ==
    /\ ingest.pc = "called"
    /\ ingest' = IF ingest.words <= ingest.chunkSize
                 THEN [ingest EXCEPT !.pc = "returned",
                                     !.chunks = <<WholeText(ingest.words)>>]
                 ELSE [ingest EXCEPT !.pc = "loop"]
    /\ UNCHANGED <<engineVars, q, session, turn, store, conc>>

\* one pass of for start < len(words); words[start:end] panics when start < 0
\* or end < start
ChunkTextLoop ==
    /\ ingest.pc = "loop"
    /\ LET start == ingest.start
           sum == start + ingest.chunkSize
           end == IF sum > ingest.words THEN ingest.words ELSE sum
           chunks == IF Len(ingest.chunks) < MaxChunks
                     THEN Append(ingest.chunks, JoinedWords(start, end))
                     ELSE ingest.chunks
       IN ingest' =
            IF ~(start < ingest.words) THEN [ingest EXCEPT !.pc = "returned"]
            ELSE IF start < 0 \/ end < start THEN [ingest EXCEPT !.pc = "panic"]
            ELSE IF end = ingest.words
                 THEN [ingest EXCEPT !.pc = "returned", !.chunks = chunks]
                 ELSE [ingest EXCEPT
                         !.chunks = chunks,
                         !.start = NextStart(start, ingest.chunkSize, ingest.overlap)]
    /\ UNCHANGED <<engineVars, q, session, turn, store, conc>>

NextChunk == ChunkTextEnter \/ ChunkTextLoop

SpecChunk == InitChunk /\ [][NextChunk]_vars /\ WF_vars(NextChunk)

(***************************************************************************)
(* SpecAccess: goroutines calling one store at the same time.  A call is   *)
(* waiting (made, its lock if any not yet held) or in its body; it returns *)
(* and unlocks in one step.  The VectorStore has mu sync.RWMutex; the      *)
(* SimpleRAGStore has no lock; a turn of the SimpleChatEngine searches the *)
(* SimpleRAGStore while it holds the engine's mu.                          *)
(***************************************************************************)
NumGoroutines == 3
Goroutines == 1..NumGoroutines

StoreOps == {"add", "load", "save", "search"}
NoOp == [op |-> "none", pc |-> "idle"]

\* the lock a call takes: vs.mu.Lock(), vs.mu.RLock(), sce.mu.Lock() or none
LockOf(kind, op) ==
    CASE op = "turn" -> "engine"
      [] kind = "vector" /\ op \in {"add", "load"} -> "Lock"
      [] kind = "vector" /\ op \in {"save", "search"} -> "RLock"
      [] OTHER -> "none"

\* the calls in their body under a given lock
Holders(lock) ==
    {t \in Goroutines : conc.calls[t].pc = "in" /\ LockOf(conc.kind, conc.calls[t].op) = lock}

NewAccess(kind) == [kind |-> kind, calls |-> [t \in Goroutines |-> NoOp]]

\* a goroutine calls AddDocument, LoadIndex, SaveIndex or Search on the store,
\* or Chat / ChatStream on the SimpleChatEngine the store is enabled on
Call(t, op) ==
    /\ conc.kind \in {"vector", "keyword"}
    /\ conc.calls[t].pc = "idle"
    /\ op = "turn" => conc.kind = "keyword"
    /\ conc' = [conc EXCEPT !.calls[t] = [op |-> op, pc |-> "wait"]]
    /\ UNCHANGED <<engineVars, q, session, turn, store, ingest>>

\* the call gets its lock and enters its body
Enter(t) ==
    /\ conc.kind \in {"vector", "keyword"}
    /\ conc.calls[t].pc = "wait"
    /\ CASE LockOf(conc.kind, conc.calls[t].op) = "Lock" ->
              Holders("Lock") = {} /\ Holders("RLock") = {}
         [] LockOf(conc.kind, conc.calls[t].op) = "RLock" -> Holders("Lock") = {}
         [] LockOf(conc.kind, conc.calls[t].op) = "engine" -> Holders("engine") = {}
         [] OTHER -> TRUE
    /\ conc' = [conc EXCEPT !.calls[t].pc = "in"]
    /\ UNCHANGED <<engineVars, q, session, turn, store, ingest>>

\* the call returns; its deferred Unlock / RUnlock runs
Return(t) ==
    /\ conc.kind \in {"vector", "keyword"}
    /\ conc.calls[t].pc = "in"
    /\ conc' = [conc EXCEPT !.calls[t] = NoOp]
    /\ UNCHANGED <<engineVars, q, session, turn, store, ingest>>

InitAccess ==
    /\ InitEngine
    /\ q = NoQueue /\ session = NoSession /\ turn = NoTurn /\ store = NoStore
    /\ ingest = NoIngest
    /\ conc \in {NewAccess("vector"), NewAccess("keyword")}

NextAccess ==
    \E t \in Goroutines :
      \/ \E op \in StoreOps \cup {"turn"} : Call(t, op)
      \/ Enter(t)
      \/ Return(t)

SpecAccess == InitAccess /\ [][NextAccess]_vars

(***************************************************************************)
(* Claims.                                                                 *)
(***************************************************************************)
Last(s) == s[Len(s)]
Inferring == {l \in Loops : loops[l].pc = "infer"}
Generating == {c \in Callers : chat[c].pc = "gen"}
NotRunningError(m) == m.kind = "error" /\ m.note \in {"NotRunning", "shutdown"}
Queued(c) == \E i \in 1..Len(requestChan) : requestChan[i].id = c
Processing(c) == \E l \in Loops : loops[l].pc \in {"process", "infer", "send"}
                                   /\ loops[l].req.id = c

\* C1: a chat turn issued after stop() has returned fails with a NotRunning
\* error result and performs no inference call (both engine variants).
C1_ChatAfterStopNotRunning ==
    \A c \in Callers :
        chat[c].afterStop =>
            /\ chat[c].pc # "panic"
            /\ ~Queued(c) /\ ~Processing(c) /\ chat[c].pc # "gen"
            /\ chat[c].pc = "done" =>
                 (Len(received[c]) = 1 /\ NotRunningError(received[c][1]))

\* C2: at most one inference call against the model is in progress at any
\* time (one consumer processes the turns one at a time).
C2_SingleInference == Cardinality(Inferring) + Cardinality(Generating) <= 1

\* C3: once the consumer has observed the shutdown signal (taken a
\* <-ctx.Done() case) it emits no further piece on the response channel.
C3_NoEmitAfterShutdownSeen ==
    [][\A l \in Loops :
         loops[l].observed =>
            ~(/\ loops[l].pc = "send"
              /\ Head(loops[l].out).kind = "piece"
              /\ loops'[l] # loops[l]
              /\ Len(responseChan') > Len(responseChan))]_vars

StopReturned == ctl.op = "stop" /\ ctl.pc = "idle" /\ ctl.result = "stopped"
StopCallStep == ctl.pc = "idle" /\ ctl'.op = "stop" /\ ctl' # ctl
FreeModelStep == \/ ctl.pc = "free" /\ ctl'.pc # "free" /\ model # "nil"
                 \/ variant = "simple" /\ StopCallStep /\ running /\ model # "nil"

\* C4: when stop() returns the engine is not running and the model is
\* released; a stop() of an engine that is not running is a no-op; the model
\* is never released twice.
C4_StopOnceThenNoop ==
    /\ [](StopReturned => (~running /\ model # "loaded"))
    /\ [][(StopCallStep /\ ~running) =>
            (/\ ctl'.pc = "idle"
             /\ UNCHANGED <<running, model, context, ctxDone, requestChan,
                            requestChanClosed, responseChan,
                            responseChanClosed, loops, crashed>>)]_vars
    /\ [][FreeModelStep => model = "loaded"]_vars

C4_Witness ==
    /\ ctl.op = "stop" /\ ctl.result = "noop" /\ ctl.starts = 1
    /\ variant = "full" /\ model = "freed"
    /\ requestChanClosed /\ responseChanClosed /\ ~crashed

\* C5: in streaming mode with one turn in flight (and no shutdown under
\* way) what the caller receives is the turn's own pieces in generation
\* order, then at most one terminal message, and nothing after it; the
\* ChatEngine's terminal done message follows all the pieces.
WellFormedStream(log, c) ==
    /\ \A i \in 1..Len(log) :
         /\ log[i].for = c
         /\ log[i].kind = "piece" => log[i].idx = i
         /\ log[i].kind # "piece" => i = Len(log)
         /\ (variant = "full" /\ log[i].kind = "done") => i = NumWords + 1
    /\ chat[c].pc = "done" => (log # <<>> /\ Last(log).kind # "piece")

C5_StreamOrderedThenDone ==
    (~overlap /\ ~ctxDone) =>
        \A c \in Callers : chat[c].stream => WellFormedStream(received[c], c)

C5_Witness ==
    /\ ~overlap /\ ~ctxDone /\ variant = "full"
    /\ \E c \in Callers :
         /\ chat[c].stream /\ chat[c].pc = "done"
         /\ Len(received[c]) = NumWords + 1
         /\ Last(received[c]).kind = "done"

StartCallStep == ctl'.op = "start" /\ ctl' # ctl

\* C6: start() on a running engine returns AlreadyRunning and changes
\* nothing: no new consumer goroutine, model and context not replaced.
C6_StartWhileRunningRefused ==
    [][(StartCallStep /\ running) =>
         (/\ ctl'.result = "AlreadyRunning"
          /\ ctl'.starts = ctl.starts
          /\ UNCHANGED <<running, model, context, loops, ctxDone,
                         requestChan, requestChanClosed, responseChan,
                         responseChanClosed>>)]_vars

C6_Witness ==
    /\ ctl.op = "start" /\ ctl.result = "AlreadyRunning" /\ running
    /\ ctl.starts = 1

\* C8: when the model or its context could not be loaded at start(), a turn
\* issued on the running engine completes with a labelled degraded response,
\* not with an error (both engine variants, buffered and streaming).
C8_DegradedResponseNotError ==
    \A c \in Callers :
        (chat[c].wasRunning /\ running /\ ~UsesRealInference
         /\ chat[c].pc = "done") =>
            /\ received[c] # <<>>
            /\ Last(received[c]).kind = "done"
            /\ Last(received[c]).note = "degraded"

\* requests the consumer has received and not yet answered
InProcess == Cardinality({l \in Loops : loops[l].pc \in {"process", "infer", "send"}})

QConservation ==
    /\ q.called = q.senders + Len(requestChan) + InProcess
                   + Len(responseChan) + q.delivered
    /\ q.forwarders = Len(requestChan) + InProcess + Len(responseChan)
    /\ Len(requestChan) <= RequestChanCap

\* C7: while the engine is not stopped, no submitted turn is lost, whether or
\* not the request queue (capacity 10) was full when it was submitted: each is
\* waiting to be sent, queued, being processed or answered; a goroutine
\* facing a full queue stays at its send; and once the engine runs, every
\* submitted turn is answered unless the engine is stopped.
C7_FullQueueBlocksNotDrops ==
    /\ [](~ctxDone => QConservation)
    /\ [][(~ctxDone /\ ~CanEnqueue) => q'.senders >= q.senders]_vars
    /\ ((running /\ q.called = QNumCalls) ~> (ctxDone \/ q.delivered = QNumCalls))

C7_Witness ==
    /\ q.calledWhenFull
    /\ ~ctxDone
    /\ q.delivered = QNumCalls
    /\ q.senders = 0

TurnEnds == session.pc = "turn" /\ session'.pc # "turn"

\* C9: in the interactive session an error turn does not end the session:
\* the loop is back at reading input, the engine is still running and intact
\* (its consumer waits for the next request, the next Chat call can be made);
\* and while the loop reads or waits for a turn the engine is running.
C9_ErrorTurnKeepsSession ==
    /\ [][(TurnEnds /\ session'.lastTurn = "error") =>
            /\ session'.pc = "read"
            /\ running' /\ ~crashed' /\ ~ctxDone'
            /\ chat'[1].pc = "idle"
            /\ session'.turns = session.turns
            /\ variant = "full" => \E l \in Loops : loops'[l].pc = "select"]_vars
    /\ [](session.pc \in {"read", "turn"} => (running /\ ~crashed /\ ~ctxDone))

C9_Witness ==
    /\ session.pc = "read"
    /\ session.hadError
    /\ session.lastTurn = "ok"
    /\ running

RetrievalFailed == turn.pc = "built" /\ turn.retrievalErr # "nil"

\* C10: when the query embedding or the store search fails during a turn,
\* the construction of the prompt returns no error, the prompt is the one
\* built from the unaugmented system message, it is dispatched (inference or
\* the simulation), and no response to the caller reports a failure to build
\* the prompt.
C10_RetrievalFailureNotFatal ==
    RetrievalFailed =>
      /\ turn.err = "nil"
      /\ turn.dispatched
      /\ turn.prompt = buildPrompt(Text(systemMessageOf(turn.messages)),
                                   conversationMessages(turn.messages))
      /\ \A l \in Loops : \A i \in 1..Len(loops[l].out) : loops[l].out[i].note # "prompt"
      /\ \A i \in 1..Len(responseChan) : responseChan[i].note # "prompt"
      /\ \A i \in 1..Len(received[1]) : received[1][i].note # "prompt"

C10_Witness ==
    /\ RetrievalFailed
    /\ turn.docs # <<>>
    /\ chat[1].pc = "done"
    /\ Len(received[1]) = 1
    /\ received[1][1].kind = "done"

(***************************************************************************)
(* The document stores (SpecStore).  A step is told by the call it leaves  *)
(* in store.last.                                                          *)
(***************************************************************************)
VectorAddStep == store.kind = "vector" /\ store'.last.op = "add" /\ store' # store
VectorSearchStep == store.kind = "vector" /\ store'.last.op = "search" /\ store' # store
KeywordSearchStep == store.kind = "keyword" /\ store'.last.op = "search" /\ store' # store
Positions(rs) == {rs[i].pos : i \in 1..Len(rs)}
Min(a, b) == IF a < b THEN a ELSE b

\* C11: AddDocument on the VectorStore fails with a dimension mismatch exactly
\* when embeddingDim was fixed (> 0) before the call and the embedding's length
\* differs from it; a failed add leaves documents and embeddingDim as they
\* were; a successful one appends the document last and, when it brings the
\* first non-empty embedding, fixes embeddingDim to its length.
C11_AddDimensionRule ==
    [][VectorAddStep =>
         LET c == store'.last
             n == Len(store.documents)
         IN /\ (c.err = "DimensionMismatch")
                 <=> (store.embeddingDim > 0 /\ c.dim # store.embeddingDim)
            /\ c.err # "nil" => /\ store'.documents = store.documents
                                /\ store'.embeddingDim = store.embeddingDim
            /\ c.err = "nil" =>
                 /\ Len(store'.documents) = n + 1
                 /\ SubSeq(store'.documents, 1, n) = store.documents
                 /\ store'.documents[n + 1].dim = c.dim
                 /\ store'.embeddingDim = IF store.embeddingDim = 0 /\ c.dim > 0
                                          THEN c.dim ELSE store.embeddingDim]_vars

\* a document without embedding was refused by a store of fixed dimension
C11_Witness ==
    /\ store.kind = "vector" /\ store.last.op = "add"
    /\ store.last.err = "DimensionMismatch" /\ store.last.dim = 0
    /\ store.embeddingDim > 0 /\ Len(store.documents) > 0

\* C12: a search of the VectorStore that passes the dimension check returns,
\* of the N documents, exactly min(topK, N) distinct ones with their
\* similarities, in non-increasing order of similarity, and no document left
\* out has a higher similarity than one returned.
C12_SearchTopK ==
    [][(VectorSearchStep /\ store'.last.err = "nil") =>
         LET c == store'.last
             rs == store'.last.results
             n == Len(store.documents)
             sim(p) == cosineSimilarity(c.dim, store.documents[p])
         IN /\ Len(rs) = Min(c.topK, n)
            /\ c.topK >= n => Len(rs) = n
            /\ \A i \in 1..(Len(rs) - 1) : rs[i].score >= rs[i + 1].score
            /\ \A i \in 1..Len(rs) : rs[i].pos \in 1..n /\ rs[i].score = sim(rs[i].pos)
            /\ \A i, j \in 1..Len(rs) : i # j => rs[i].pos # rs[j].pos
            /\ \A p \in (1..n) \ Positions(rs) :
                 \A i \in 1..Len(rs) : sim(p) <= rs[i].score]_vars

\* of two documents the later, more similar one alone was returned
C12_Witness ==
    /\ store.kind = "vector" /\ store.last.op = "search" /\ store.last.err = "nil"
    /\ Len(store.documents) = 2 /\ store.last.topK = 1
    /\ Len(store.last.results) = 1 /\ store.last.results[1].pos = 2
    /\ store.last.results[1].score > 0

\* C13: a search of the VectorStore fails with a dimension mismatch exactly
\* when the query embedding's length is not embeddingDim, a non-empty query
\* on a store of unfixed dimension included; failed or not, it leaves
\* documents and embeddingDim as they were.
C13_SearchDimensionRule ==
    [][VectorSearchStep =>
         /\ (store'.last.err = "DimensionMismatch")
              <=> (store'.last.dim # store.embeddingDim)
         /\ store'.documents = store.documents
         /\ store'.embeddingDim = store.embeddingDim]_vars

\* a non-empty query was refused by a store holding a document and no dimension
C13_Witness ==
    /\ store.kind = "vector" /\ store.last.op = "search"
    /\ store.last.err = "DimensionMismatch" /\ store.last.dim > 0
    /\ store.embeddingDim = 0 /\ Len(store.documents) > 0

\* C14: in a search of either store, documents of equal score come out in the
\* order they were added, and of equal documents at the topK cut the ones
\* added earlier are kept.
C14_TiesInInsertionOrder ==
    [][((VectorSearchStep \/ KeywordSearchStep) /\ store'.last.err = "nil") =>
         LET c == store'.last
             rs == store'.last.results
             score(p) == IF store.kind = "vector"
                         THEN cosineSimilarity(c.dim, store.documents[p])
                         ELSE calculateScore(extractKeywords(ToLower(c.query)),
                                             store.documents[p])
         IN /\ \A i, j \in 1..Len(rs) :
                 (i < j /\ rs[i].score = rs[j].score) => rs[i].pos < rs[j].pos
            /\ \A p \in (1..Len(store.documents)) \ Positions(rs) :
                 \A i \in 1..Len(rs) : score(p) = rs[i].score => rs[i].pos < p]_vars

\* the terms of a query that count: lower-cased, longer than 2, no stop words
UsableTerms(query) ==
    LET usable(w) == WordLen(w) > 2 /\ w \notin stopWords
    IN SelectSeq(ToLower(query), usable)

\* a query matches a document that has one of its terms as a word, or its
\* phrase in the text
Matches(query, doc) ==
    LET text == ToLower(doc.title \o doc.content)
        terms == UsableTerms(query)
    IN /\ Len(terms) > 0
       /\ \/ \E i \in 1..Len(terms), j \in 1..Len(text) : terms[i] = text[j]
          \/ TextContains(text, terms)

\* C20: a search of the SimpleRAGStore returns no error; its result is empty
\* for an empty store, for a query without usable term (empty, stop words
\* only, terms of two characters or less) and for a query that matches no
\* document; every result has a score above 0 and there are at most topK.
C20_KeywordSearchNeverFails ==
    [][KeywordSearchStep =>
         LET c == store'.last
             docs == store.documents
         IN /\ c.err = "nil"
            /\ (\/ Len(docs) = 0
                \/ Len(UsableTerms(c.query)) = 0
                \/ \A p \in 1..Len(docs) : ~Matches(c.query, docs[p]))
                 => c.results = <<>>
            /\ \A i \in 1..Len(c.results) : c.results[i].score > 0
            /\ Len(c.results) <= c.topK]_vars

\* a query of one short word found nothing in a store that holds the word
C20_Witness ==
    /\ store.kind = "keyword" /\ store.last.op = "search"
    /\ store.last.query = <<"ab">> /\ store.last.topK > 0
    /\ \E p \in 1..Len(store.documents) : store.documents[p].content = <<"ab">>
    /\ store.last.results = <<>>

(***************************************************************************)
(* The index files (SpecIndex).                                            *)
(***************************************************************************)
LoadStep == store'.last.op = "load" /\ store' # store
SaveStep == store'.last.op = "save" /\ store' # store

\* C15: whatever was added, a LoadIndex that succeeds on the file a
\* successful SaveIndex wrote gives the store the documents that were saved:
\* as many, in the same order, every field the same, and the same embeddingDim.
C15_SaveLoadRoundTrip ==
    [][(LoadStep /\ store'.last.err = "nil" /\ store.saved.valid) =>
         /\ Len(store'.documents) = Len(store.saved.documents)
         /\ store'.documents = store.saved.documents
         /\ store'.embeddingDim = store.saved.embeddingDim]_vars

\* C16: LoadIndex on a path without file returns no error, creates no file
\* and leaves the store empty.
C16_LoadMissingFileEmptyStore ==
    [][(LoadStep /\ store.file.state = "missing") =>
         /\ store'.last.err = "nil"
         /\ store'.file.state = "missing"
         /\ Len(store'.documents) = 0]_vars

\* C17: a LoadIndex that fails (file unreadable or not parsable) and a
\* SaveIndex that fails (MkdirAll or WriteFile error) leave the documents and
\* embeddingDim in memory as they were.
C17_FailedLoadSaveKeepMemory ==
    [][((LoadStep \/ SaveStep) /\ store'.last.err # "nil") =>
         /\ store'.documents = store.documents
         /\ store'.embeddingDim = store.embeddingDim]_vars

\* a store with documents and a fixed dimension after a LoadIndex that could
\* not parse the file
C17_Witness ==
    /\ store.kind = "vector" /\ store.last.op = "load" /\ store.last.err = "unmarshal"
    /\ Len(store.documents) > 0 /\ store.embeddingDim > 0

(***************************************************************************)
(* Concurrent calls on a store (SpecAccess).                               *)
(***************************************************************************)
InBody(t, ops) == conc.calls[t].pc = "in" /\ conc.calls[t].op \in ops

\* C18: on the VectorStore no AddDocument, LoadIndex or SaveIndex is in its
\* body while another call on the store is (searches may be together).
C18_VectorWritersExclusive ==
    conc.kind = "vector" =>
      \A t, u \in Goroutines :
        (t # u /\ InBody(t, {"add", "load", "save"})) => ~InBody(u, StoreOps)

\* C19: on the SimpleRAGStore no AddDocument, LoadIndex or SaveIndex is in its
\* body while a Search (a chat turn's included), an AddDocument or a SaveIndex
\* of another goroutine is.
C19_KeywordWritersExclusive ==
    conc.kind = "keyword" =>
      \A t, u \in Goroutines :
        (t # u /\ InBody(t, {"add", "load", "save"}))
          => ~InBody(u, {"search", "turn", "add", "save"})

(***************************************************************************)
(* The engine under concurrent callers, Stop and restart.                  *)
(***************************************************************************)
\* C24: with several Chat calls in flight on one engine, what a caller's
\* response channel receives was generated for that caller's own request.
C24_OwnResponsesOnly ==
    \A c \in Callers : \A i \in 1..Len(received[c]) : received[c][i].for = c

\* C25: no inference of the consumer runs on a model that Stop has freed.
C25_NoInferenceOnFreedModel ==
    \A l \in Loops : loops[l].pc = "infer" => model # "freed"

\* C26: whatever the sequence of Start and Stop calls on a ChatEngine, Start
\* after Stop included, no channel is closed twice and nothing is sent on a closed
\* channel (either would panic), and after a successful Start following a
\* Stop the consumer is alive: it waits for requests on an open queue with
\* the shutdown signal not set.
C26_RestartSafe ==
    /\ ~crashed
    /\ (variant = "full" /\ running /\ ctl.starts > 1 /\ ctl.pc = "idle") =>
         /\ ~requestChanClosed /\ ~responseChanClosed /\ ~ctxDone
         /\ \E l \in Loops : loops[l].pc \in {"select", "process", "infer", "send"}

\* C27: while the engine has never been started, no turn is queued for a
\* later Start, no caller waits for a response, and every Chat call that has
\* returned its result returned a NotRunning error.
C27_ChatBeforeStartNotRunning ==
    ctl.starts = 0 =>
      /\ requestChan = <<>>
      /\ \A c \in Callers :
           /\ chat[c].pc # "forward"
           /\ chat[c].pc = "done" =>
                (Len(received[c]) = 1 /\ NotRunningError(received[c][1]))

Terminal(m) == m.kind \in {"done", "error"}

\* C28: on a running engine that is never stopped, every submitted turn, of
\* however many concurrent callers, eventually gets a terminal message (done
\* or error) and its channel is then closed (the goroutine has returned),
\* the consumer and the callers' goroutines being scheduled fairly.
C28_EveryTurnTerminates ==
    \A c \in Callers :
      (chat[c].wasRunning /\ chat[c].pc # "idle")
        ~> (/\ chat[c].pc = "done"
            /\ received[c] # <<>>
            /\ Terminal(Last(received[c])))

\* two overlapping turns on the ChatEngine, one of them streamed, both ended
C28_Witness ==
    /\ variant = "full" /\ overlap /\ ~ctxDone
    /\ \A c \in Callers :
         /\ chat[c].wasRunning /\ chat[c].pc = "done"
         /\ received[c] # <<>> /\ Terminal(Last(received[c]))
    /\ \E c \in Callers : chat[c].stream

(***************************************************************************)
(* The conversation history of the interactive session (SpecSession).      *)
(***************************************************************************)
Pieces(log) == Cardinality({i \in 1..Len(log) : log[i].kind = "piece"})

\* C29: after a successful turn of the session, buffered or streamed, the
\* assistant message appended to the history holds the turn's complete
\* response text once: the complete text alone, or the pieces alone.
C29_HistoryHoldsResponseOnce ==
    [][(TurnEnds /\ session'.lastTurn = "ok"
        /\ Len(session'.messages) > Len(session.messages)) =>
         LET a == Last(session'.messages)
         IN /\ a.role = "assistant"
            /\ \/ Len(a.content) = 1
               \/ Len(a.content) = Pieces(received[1])]_vars

\* C30: a turn of the session that ends with an error leaves the history as
\* it was before the turn: the turn's user message is taken back and nothing
\* is appended.
C30_ErrorTurnRestoresHistory ==
    [][(TurnEnds /\ session'.lastTurn = "error") =>
         session'.messages = SubSeq(session.messages, 1, Len(session.messages) - 1)]_vars

(***************************************************************************)
(* The context assembler (SpecAssemble).                                   *)
(***************************************************************************)
RECURSIVE EstimatedCost(_)
\* the sum of len(content) / 4 over documents
EstimatedCost(docs) ==
    IF docs = <<>> THEN 0 ELSE (Head(docs).chars \div 4) + EstimatedCost(Tail(docs))

\* C22: for every sequence of results and every maxTokens >= 0 the documents
\* the assembler includes cost, at len(content) / 4 each (integer division),
\* at most maxTokens together; of two results of 4000 characters each with
\* maxTokens = 1500 exactly one is included.
C22_ContextWithinBudget ==
    turn.pc = "assembled" =>
      /\ turn.context.numDocuments = Len(turn.context.results)
      /\ EstimatedCost(turn.context.results) <= turn.maxTokens
      /\ (/\ Len(turn.results) = 2
          /\ turn.results[1].chars = 4000 /\ turn.results[2].chars = 4000
          /\ turn.maxTokens = 1500) => turn.context.numDocuments = 1

\* two results of 4000 characters and a budget of 1500: one document included
C22_Witness ==
    /\ turn.pc = "assembled"
    /\ Len(turn.results) = 2
    /\ turn.results[1].chars = 4000 /\ turn.results[2].chars = 4000
    /\ turn.maxTokens = 1500
    /\ turn.context.numDocuments = 1

(***************************************************************************)
(* Keyword retrieval of a turn (SpecRetrieve).                             *)
(***************************************************************************)
\* the document has one of the query's usable terms among its words
SharesTerm(query, doc) ==
    LET text == ToLower(doc.title \o doc.content)
        terms == UsableTerms(query)
    IN \E i \in 1..Len(terms), j \in 1..Len(text) : terms[i] = text[j]

\* C21: with keyword retrieval a document whose title and content share no
\* term with the stop-word-filtered query never appears in the context of the
\* turn, and a document that contains a query term scores strictly higher
\* than it.
C21_UnrelatedDocumentLeftOut ==
    (store.kind = "keyword" /\ store.last.op = "context") =>
      LET docs == store.documents
          query == store.last.query
      IN \A p \in 1..Len(docs) :
           ~SharesTerm(query, docs[p]) =>
             /\ p \notin Positions(store.last.results)
             /\ \A o \in 1..Len(docs) :
                  SharesTerm(query, docs[o]) =>
                    calculateScore(UsableTerms(query), docs[o])
                      > calculateScore(UsableTerms(query), docs[p])

(***************************************************************************)
(* The ingest command (SpecIngest).                                        *)
(***************************************************************************)
\* C23: a chunk whose embedding length differs from the embeddingDim the
\* store already has is a hard error of the ingestion run: no run skips such
\* a chunk and then reports success with the chunk missing from the saved
\* index.
C23_DimensionMismatchFailsRun ==
    (ingest.pc = "exited" /\ ingest.result = "success") => ingest.skipped = 0

(***************************************************************************)
(* Embedding lengths in the vector store (SpecIndex).                      *)
(***************************************************************************)
\* C31: whenever embeddingDim > 0, every document the embedding store holds
\* has an embedding of length exactly embeddingDim, after any sequence of add
\* and load operations, documents added with an empty embedding before the
\* dimension was fixed included.
C31_AllEmbeddingsOfStoreDim ==
    (store.kind = "vector" /\ store.embeddingDim > 0) =>
      \A i \in 1..Len(store.documents) : store.documents[i].dim = store.embeddingDim

(***************************************************************************)
(* Repeated ingestion (SpecIngest).                                        *)
(***************************************************************************)
\* the run repeated the run before it: same chunks, same embedding model
SameIngestionAgain ==
    /\ ingest.pc = "exited" /\ ingest.result = "success"
    /\ ingest.prev.result = "success"
    /\ ingest.source = ingest.prev.source /\ ingest.dim = ingest.prev.dim

\* C32: running the same ingestion twice over unchanged sources against the
\* same index path leaves every document/chunk ID at most once in the saved
\* index: the second run does not grow the document count and regenerates no
\* embedding.
C32_ReingestionAddsNothing ==
    SameIngestionAgain =>
      /\ \A i, j \in 1..Len(store.saved.documents) :
           store.saved.documents[i].id = store.saved.documents[j].id => i = j
      /\ ingest.embeddings = 0

(***************************************************************************)
(* ChunkText (SpecChunk).                                                  *)
(***************************************************************************)
\* C33: ChunkText terminates and returns a result for every text and every
\* integer chunkSize and overlap, overlap >= chunkSize included.
C33_ChunkTextReturns == <>(ingest.pc = "returned")

\* the words a chunk holds
ChunkWords(c) == {w \in 1..MaxTextWords + 1 : c.from < w /\ w <= c.to}

\* C38: for 0 <= overlap < chunkSize, ChunkText returns one chunk equal to
\* the whole text when the text has at most chunkSize words; otherwise every
\* chunk has at most chunkSize words, consecutive chunks share exactly
\* overlap words (the last ones of one are the first ones of the next), every
\* word of the text is in some chunk, in order, and the last chunk ends with
\* the last word of the text.
C38_ChunksOverlapAndCover ==
    (/\ ingest.pc = "returned"
     /\ 0 <= ingest.overlap /\ ingest.overlap < ingest.chunkSize) =>
      LET cs == ingest.chunks
          k == Len(cs)
      IN IF ingest.words <= ingest.chunkSize
         THEN k = 1 /\ ~cs[1].joined /\ cs[1].from = 0 /\ cs[1].to = ingest.words
         ELSE /\ k > 1
              /\ cs[1].from = 0
              /\ cs[k].to = ingest.words
              /\ \A i \in 1..k :
                   /\ cs[i].joined
                   /\ Cardinality(ChunkWords(cs[i])) \in 1..ingest.chunkSize
              /\ \A i \in 1..(k - 1) :
                   /\ Cardinality(ChunkWords(cs[i]) \cap ChunkWords(cs[i + 1]))
                        = ingest.overlap
                   /\ cs[i + 1].from = cs[i].to - ingest.overlap
                   /\ cs[i].from < cs[i + 1].from /\ cs[i].to < cs[i + 1].to
              /\ UNION {ChunkWords(cs[i]) : i \in 1..k} = 1..ingest.words

\* four words in chunks of three with two shared: words 1-3 and 2-4
C38_Witness ==
    /\ ingest.pc = "returned"
    /\ ingest.words = 4 /\ ingest.chunkSize = 3 /\ ingest.overlap = 2
    /\ Len(ingest.chunks) = 2
    /\ ingest.chunks[2].from = 1 /\ ingest.chunks[2].to = 4

(***************************************************************************)
(* Retrieval of a turn (SpecTurn).                                         *)
(***************************************************************************)
\* the turn got as far as the construction of its prompt
PromptBuilt == turn.pc = "built" /\ turn.prompt # <<>>

\* the threshold of the mode the turn retrieved in
ModeThreshold == IF turn.ragEnabled THEN SimilarityThreshold ELSE ScoreThreshold

\* C34: every document passed to the context assembler during a turn has a
\* relevance strictly above the threshold of the mode, similarity > 0.3 in
\* embedding mode and score > 0.1 in keyword mode, in every engine variant.
C34_AssembledAboveThreshold ==
    PromptBuilt =>
      \A a \in 1..Len(turn.assembled) :
        \A i \in 1..Len(turn.assembled[a].results) :
          turn.assembled[a].results[i].score > ModeThreshold

\* C35: each turn with retrieval enabled and a non-empty query performs
\* exactly one store search, with topK = 5 in embedding mode and topK = 2 in
\* keyword mode whichever engine variant runs it, and with a context budget
\* of 2000 tokens in the full engine and 800 in the lightweight engine
\* (turns whose query could not be embedded set aside).
C35_OneSearchFixedTopK ==
    (/\ PromptBuilt
     /\ turn.retrievalErr # "embedding"
     /\ turn.ragEnabled \/ turn.simpleRAGEnabled
     /\ extractUserQuery(turn.messages) # "") =>
      /\ Len(turn.searches) = 1
      /\ turn.searches[1].topK = IF turn.ragEnabled THEN 5 ELSE 2
      /\ \A a \in 1..Len(turn.assembled) :
           turn.assembled[a].maxTokens = IF variant = "full" THEN 2000 ELSE 800

\* the content of the last message of the role in the conversation
LastOfRole(messages, role) ==
    LET with == SelectSeq(messages, LAMBDA m : m.role = role)
    IN IF with = <<>> THEN "" ELSE with[Len(with)].content

\* C37: the retrieval query of a turn is the content of the last message
\* with role user in the conversation; when the conversation holds no user
\* message, or that message is empty, no search is executed during the turn.
C37_QueryIsLastUserMessage ==
    PromptBuilt =>
      /\ \A i \in 1..Len(turn.searches) :
           turn.searches[i].query = LastOfRole(turn.messages, "user")
      /\ LastOfRole(turn.messages, "user") = ""
           => (turn.searches = <<>> /\ turn.assembled = <<>>)

\* an earlier user message had text, the last one is empty: no search
C37_Witness ==
    /\ PromptBuilt
    /\ turn.simpleRAGEnabled
    /\ Len(turn.messages) = 2
    /\ turn.messages[1] = [role |-> "user", content |-> "t"]
    /\ turn.messages[2] = [role |-> "user", content |-> ""]
    /\ turn.searches = <<>>

\* the documents the retrieval of the turn returned: those of the assembler
\* call that fit its budget, up to the first that does not
RECURSIVE Fitting(_, _)
Fitting(results, room) ==
    IF results = <<>> \/ Head(results).tokens > room THEN <<>>
    ELSE <<Head(results)>> \o Fitting(Tail(results), room - Head(results).tokens)

Returned ==
    IF turn.assembled = <<>> \/ turn.retrievalErr # "nil" THEN <<>>
    ELSE Fitting(turn.assembled[1].results, turn.assembled[1].maxTokens)

\* the prompt is: the system block if withSystem, the user and assistant
\* messages in their order, each under its role, the open assistant marker
PromptShape(withSystem) ==
    LET p == turn.prompt
        first == IF withSystem THEN 2 ELSE 1
        blocks == SubSeq(p, first, Len(p) - 1)
        conversation == SelectSeq(turn.messages,
                                  LAMBDA m : m.role \in {"user", "assistant"})
    IN /\ Len(p) >= first
       /\ p[Len(p)].tag = "generate"
       /\ withSystem =>
            /\ p[1].tag = "system"
            /\ p[1].body.text = LastOfRole(turn.messages, "system")
            /\ p[1].body.docs = Returned
            /\ p[1].body.enhanced <=> Returned # <<>>
       /\ Len(blocks) = Len(conversation)
       /\ \A i \in 1..Len(blocks) :
            /\ blocks[i].tag = conversation[i].role
            /\ blocks[i].body = [text |-> conversation[i].content, docs |-> <<>>,
                                 enhanced |-> FALSE]

\* C40 as stated: the prompt built for a turn is, in order, the system block
\* (the conversation's system message, RAG-augmented when retrieval returned
\* documents), then every user and assistant message of the conversation in
\* its original order, each tagged with its role, then the open assistant
\* marker.
C40_PromptAlwaysWithSystemBlock == PromptBuilt => PromptShape(TRUE)

\* C40, amended: the same, the system block being there exactly when the
\* conversation's system message is not empty or retrieval returned
\* documents; the prompt always ends with the open assistant marker and no
\* user or assistant message is omitted or reordered.
C40_PromptInOrder ==
    PromptBuilt =>
      PromptShape(LastOfRole(turn.messages, "system") # "" \/ Returned # <<>>)

\* a system message augmented with a retrieved document, a user message, the
\* marker
C40_Witness ==
    /\ PromptBuilt
    /\ turn.messages = <<[role |-> "system", content |-> "t"],
                         [role |-> "user", content |-> "t"]>>
    /\ Len(turn.prompt) = 3
    /\ turn.prompt[1].tag = "system" /\ turn.prompt[1].body.enhanced
    /\ turn.prompt[2].tag = "user" /\ turn.prompt[3].tag = "generate"

Occurrences(term, terms) == Cardinality({i \in 1..Len(terms) : terms[i] = term})

RECURSIVE TermShares(_, _, _, _)
\* the sum over the distinct query terms that are terms of the document, in
\* units of 1 / (2 * number of query terms)
TermShares(terms, queryTerms, docTerms, titleTerms) ==
    IF terms = {} THEN 0
    ELSE LET t == CHOOSE x \in terms : TRUE
             share == 2 * Occurrences(t, queryTerms)
             recurring == IF Occurrences(t, docTerms) > 1 THEN (3 * share) \div 2
                          ELSE share
             titled == IF Occurrences(t, titleTerms) > 0 THEN 2 * recurring
                       ELSE recurring
         IN (IF Occurrences(t, docTerms) > 0 THEN titled ELSE 0)
              + TermShares(terms \ {t}, queryTerms, docTerms, titleTerms)

\* the score as specified, in the same units
SpecifiedScore(query, doc) ==
    LET queryTerms == UsableTerms(query)
        docTerms == UsableTerms(doc.title \o doc.content)
        titleTerms == UsableTerms(doc.title)
    IN IF queryTerms = <<>> THEN 0
       ELSE TermShares({queryTerms[i] : i \in 1..Len(queryTerms)}, queryTerms,
                       docTerms, titleTerms)
              + (IF TextContains(ToLower(doc.title \o doc.content), queryTerms)
                 THEN 2 * Len(queryTerms) ELSE 0)

\* C39: the keyword score of a document for a query is the sum, over the
\* distinct query terms that are tokens of the document's title and content,
\* of (occurrences of the term in the query / number of query terms), times
\* 1.5 when the term occurs more than once in the document, times 2.0 when
\* the term also occurs in the title, plus 1.0 when the space-joined filtered
\* query phrase appears verbatim in the lower-cased document text; terms are
\* lower-case tokens without stop words and tokens of length <= 2.
C39_ScoreAsSpecified ==
    (store.kind = "keyword" /\ store.last.op = "search") =>
      \A i \in 1..Len(store.last.results) :
        store.last.results[i].score
          = SpecifiedScore(store.last.query,
                           store.documents[store.last.results[i].pos])

=============================================================================
